---- MODULE Spec2Model ----
(***************************************************************************)
(* Runic Protocol: the matching and lifecycle core of one Task.            *)
(*                                                                         *)
(* The model follows the services of apps/api/src/services: TaskService,   *)
(* OfferService, AuctionEngine, ExecutionService, PaymentService,          *)
(* ReputationService and AgentService, and utils/state-machine.ts.         *)
(* Every `await` on the store (a prisma call) is one atomic step; the code *)
(* between two awaits runs with the step that precedes it, as it does in a *)
(* single-threaded event loop.  Handlers of different requests and timer   *)
(* callbacks interleave at the awaits.                                     *)
(*                                                                         *)
(* Units: prices in lamports, scores in thousandths (the code rounds the   *)
(* score to 3 decimals), reputation in hundredths (the code rounds it to   *)
(* 2 decimals), reputation deltas in hundredths.                             *)
(***************************************************************************)
EXTENDS Integers, Sequences, FiniteSets, TLC

\* ------------------------------------------------------------------ bounds
MaxAuctions == 2    \* timers (auction windows) ever scheduled for the Task
MaxOffers == 2      \* Offer rows created for the Task in one run
MaxFaults == 2      \* store calls of window close that throw
MaxOverlaps == 1    \* starts of a handler or callback while another one is running
TaskBudget == 2     \* budgetLamports of the Task
MaxResubmits == 2   \* Offer rows created after a window close has rejected an Offer
MaxLiveOverlaps == 2 \* overlapping starts in the runs checked for progress
MaxSettles == 3     \* settlePayment calls that find their payment PENDING
MaxEvents == 3      \* ReputationEvent rows created by direct applyEvent calls

Agents == {"a1", "a2", "a3", "a4"}
Callers == {"c1", "c2"}
Timers == 1..MaxAuctions
Prices == {1, 2, 3}
Etas == {1}
NoAgent == "none"

\* the Task whose auction is followed, and another Task of the same poster
Tasks == {"t1", "t2"}

\* errorMessage of a completeExecution request body; the field is optional
NoMessage == ""
ErrorMessages == {NoMessage, "timeout"}

\* Agent rows at the start: a3 has been deactivated, a4 registered with
\* another capability than the Task requires. AgentService.updateAgent changes
\* both fields of a row later on.
AgentIsActive == [a \in Agents |-> a # "a3"]
AgentCapabilities == [a \in Agents |-> IF a = "a4" THEN {"storage"} ELSE {"compute"}]
RequiredCapabilities == {"compute"}

\* ------------------------------------------------------- utils/state-machine
TaskStatuses ==
  {"OPEN", "IN_AUCTION", "ASSIGNED", "RUNNING", "COMPLETED", "FAILED", "CANCELLED"}

\* the table with a terminal status made resumable
VALID_TRANSITIONS_Resumable ==
  [s \in TaskStatuses |->
     CASE s = "OPEN" -> {"IN_AUCTION", "CANCELLED"}
       [] s = "IN_AUCTION" -> {"ASSIGNED", "OPEN", "CANCELLED"}
       [] s = "ASSIGNED" -> {"RUNNING", "CANCELLED"}
       [] s = "RUNNING" -> {"COMPLETED", "FAILED"}
       [] s = "FAILED" -> {"RUNNING"}
       [] OTHER -> {}]

VALID_TRANSITIONS ==
  [s \in TaskStatuses |->
     CASE s = "OPEN" -> {"IN_AUCTION", "CANCELLED"}
       [] s = "IN_AUCTION" -> {"ASSIGNED", "OPEN", "CANCELLED"}
       [] s = "ASSIGNED" -> {"RUNNING", "CANCELLED"}
       [] s = "RUNNING" -> {"COMPLETED", "FAILED"}
       [] OTHER -> {}]

isValidTransition(from, to) == to \in VALID_TRANSITIONS[from]

\* the error assertValidTransition throws, "ok" when it returns normally
assertValidTransition(from, to) ==
  IF isValidTransition(from, to) THEN "ok" ELSE "ConflictError"

canAcceptOffers(status) == status = "OPEN" \/ status = "IN_AUCTION"

\* cancellation allowed while the Task is executing
canBeCancelled_WhileRunning(status) == status \in {"OPEN", "IN_AUCTION", "ASSIGNED", "RUNNING"}

canBeCancelled(status) == status \in {"OPEN", "IN_AUCTION", "ASSIGNED"}

canStartExecution_Restart(status) == status \in {"ASSIGNED", "RUNNING"}

canStartExecution(status) == status = "ASSIGNED"

\* a completion that may be retried on a FAILED Task
canComplete_Retry(status) == status \in {"RUNNING", "FAILED"}

canComplete(status) == status = "RUNNING"

isTerminal(status) == status \in {"COMPLETED", "FAILED", "CANCELLED"}

\* ------------------------------------------------ OfferService.computeOfferScore
\* Math.log(n) in millionths, for the arguments the model uses
LnMicro ==
  [n \in 1..8 \cup {1000001, 1000002} |->
     CASE n = 1 -> 0
       [] n = 2 -> 693147
       [] n = 3 -> 1098612
       [] n = 4 -> 1386294
       [] n = 5 -> 1609438
       [] n = 6 -> 1791759
       [] n = 7 -> 1945910
       [] n = 8 -> 2079442
       [] n = 1000001 -> 13815512
       [] n = 1000002 -> 13815513]

\* Math.round(num / den) for den > 0: floor(x + 1/2)
RoundDiv(num, den) == (2 * num + den) \div (2 * den)

\* the price term added instead of subtracted
computeOfferScore_PriceRewarded(priceLamports, etaSeconds, reputationScore) ==
  RoundDiv(200000000 + 2 * LnMicro[priceLamports + 1] - LnMicro[etaSeconds + 1]
             + 2 * reputationScore * 10000,
           2000)

\* score in thousandths; reputation in hundredths.
\* twice the score in millionths is 2*base - 2*alpha*ln(price+1) - ln(eta+1) + 2*rep
computeOfferScore(priceLamports, etaSeconds, reputationScore) ==
  RoundDiv(200000000 - 2 * LnMicro[priceLamports + 1] - LnMicro[etaSeconds + 1]
             + 2 * reputationScore * 10000,
           2000)

\* the check passes for any Agent that has registered a capability
hasRequiredCapabilities_Any(agent, required) ==
  IF required = {} THEN TRUE ELSE agent.capabilities # {}

\* agent is the Agent row read from the store
hasRequiredCapabilities(agent, required) ==
  IF required = {} THEN TRUE ELSE required \subseteq agent.capabilities

\* ---------------------------------------------------------------- the state
VARIABLES
  taskStatus,        \* Task.status in the store
  assignedAgentId,   \* Task.assignedAgentId in the store
  offers,            \* Offer rows, in creation order; the id is the index
  executions,        \* Execution rows, in creation order
  payments,          \* Payment rows
  reputationEvents,  \* ReputationEvent rows, oldest first
  agents,            \* Agent rows: reputationScore, the aggregate counters, isActive, capabilities
  activeAuctions,    \* AuctionEngine.activeAuctions: the timer of the Task's entry, 0 if none
  timers,            \* every timer scheduled by startAuction and its closeAuction callback
  nextTimer,         \* number of timers scheduled so far
  calls,             \* the request handler each caller is running
  faults,            \* store calls that have thrown so far
  overlapsLeft,      \* starts of a handler or callback while another one runs, still allowed
  guardCall,         \* a direct call of the state-machine helpers
  secondTask,        \* status and assignedAgentId of Task t2 in the store
  offersLeft,        \* Offer rows that may still be created
  transfers          \* SolanaClient.sendPayment invocations so far: the payment of each

\* the rows of the store, and the transfers sent to the chain
storeVars == <<taskStatus, assignedAgentId, offers, executions, payments,
               reputationEvents, agents, secondTask, transfers>>
engineVars == <<activeAuctions, timers, nextTimer>>
vars == <<taskStatus, assignedAgentId, offers, executions, payments,
          reputationEvents, agents, activeAuctions, timers, nextTimer,
          calls, faults, overlapsLeft, guardCall, secondTask, offersLeft, transfers>>

BASE_SCORE == 300

IdleCall ==
  [op |-> "none", pc |-> "idle", taskId |-> "t1", agentId |-> NoAgent, price |-> 0, eta |-> 0,
   success |-> FALSE, errorMessage |-> NoMessage, isActive |-> <<>>, capabilities |-> <<>>,
   rep |-> 0, found |-> 0, n1 |-> 0, n2 |-> 0, late |-> FALSE,
   result |-> "-"]

UnusedTimer ==
  [pc |-> "unused", fetched |-> <<>>, storeFailed |-> FALSE, catchFailed |-> FALSE]

IdleGuardCall == [fn |-> "-", from |-> "-", to |-> "-", outcome |-> "-"]

\* Task t2 has not been created
NoTask == [status |-> "absent", assignedAgentId |-> NoAgent]

InitTask ==
  /\ taskStatus = "OPEN"
  /\ assignedAgentId = NoAgent
  /\ offers = <<>>
  /\ executions = <<>>
  /\ payments = <<>>
  /\ transfers = <<>>
  /\ reputationEvents = <<>>
  /\ agents = [a \in Agents |->
                 [reputationScore |-> BASE_SCORE, totalTasksCompleted |-> 0,
                  totalTasksFailed |-> 0, isActive |-> AgentIsActive[a],
                  capabilities |-> AgentCapabilities[a]]]
  /\ activeAuctions = 0
  /\ timers = [t \in Timers |-> UnusedTimer]
  /\ nextTimer = 0
  /\ calls = [c \in Callers |-> IdleCall]
  /\ faults = 0
  /\ guardCall = IdleGuardCall
  /\ secondTask = NoTask
  /\ offersLeft = MaxOffers

Init == InitTask /\ overlapsLeft = MaxOverlaps

\* the handlers and callbacks of the Task run one after the other
InitSerial == InitTask /\ overlapsLeft = 0

\* a handler returns or throws: the caller sees the operation, the agent it
\* was called for, and the result
Returned(opName, a, res) ==
  [IdleCall EXCEPT !.op = opName, !.pc = "returned", !.agentId = a, !.result = res]

Return(c, res) ==
  calls' = [calls EXCEPT ![c] = [Returned(calls[c].op, calls[c].agentId, res)
                                   EXCEPT !.taskId = calls[c].taskId]]

ReturnAtOnce(c, opName, a, res) == calls' = [calls EXCEPT ![c] = Returned(opName, a, res)]

Goto(c, label) == calls' = [calls EXCEPT ![c].pc = label]

Enter(c, new) == calls' = [calls EXCEPT ![c] = new]

\* the Node process has ended: no handler and no callback runs any more
Exited == \E t \in Timers : timers[t].pc = "exited"

\* the response is delivered as soon as the handler has returned, before any
\* other handler or callback runs; the slot is free again
Responding == \E c \in Callers : calls[c].pc = "returned"

Acknowledge(c) ==
  /\ calls[c].pc = "returned"
  /\ ~Exited
  /\ calls' = [calls EXCEPT ![c] = IdleCall]
  /\ UNCHANGED <<storeVars, engineVars, faults, overlapsLeft, guardCall, offersLeft>>

\* a handler resumes after the await it is suspended at
At(c, label) == calls[c].pc = label /\ ~Responding /\ ~Exited

\* a timer callback resumes after the await it is suspended at
TimerAt(t, labels) == timers[t].pc \in labels /\ ~Responding /\ ~Exited

\* a free slot takes the next request; the slots are interchangeable and
\* the first free one is used
SlotOrder == <<"c1", "c2">>

\* a countdown has fired and its closeAuction has not finished
Closing ==
  \E t \in Timers : timers[t].pc \notin {"unused", "armed", "cleared", "done", "exited", "lost"}

\* a handler or callback is running: it has started and not yet finished, and
\* the process has not ended
Busy ==
  /\ ~Exited
  /\ \/ \E c \in Callers : calls[c].pc \notin {"idle", "returned"}
     \/ Closing

\* a handler or callback starts; starts that overlap a running one are counted
Admit ==
  IF Busy THEN overlapsLeft > 0 /\ overlapsLeft' = overlapsLeft - 1
          ELSE overlapsLeft' = overlapsLeft

CanBegin(c) ==
  /\ calls[c].pc = "idle"
  /\ ~Responding
  /\ ~Exited
  /\ \A i \in 1..Len(SlotOrder) :
       SlotOrder[i] = c => \A j \in 1..(i - 1) : calls[SlotOrder[j]].pc # "idle"

\* --------------------------------------------------------------- the store
PendingOfferIds == {i \in 1..Len(offers) : offers[i].status = "PENDING"}

\* every order in which the store may return the rows of S
OrderingsOf(S) ==
  {f \in [1..Cardinality(S) -> S] : \A x \in S : \E i \in 1..Cardinality(S) : f[i] = x}

\* the same query ordered by score ascending
getPendingOffersForTask_Asc ==
  {ids \in OrderingsOf(PendingOfferIds) :
     \A i \in 1..(Len(ids) - 1) : offers[ids[i]].score <= offers[ids[i + 1]].score}

\* prisma findMany ... orderBy score desc: every order of the ids that is
\* descending in score (rows of equal score come in any order)
getPendingOffersForTask ==
  {ids \in OrderingsOf(PendingOfferIds) :
     \A i \in 1..(Len(ids) - 1) : offers[ids[i]].score >= offers[ids[i + 1]].score}

\* prisma updateMany where status = PENDING and id # winnerOfferId
rejectOffersExcept(winnerOfferId) ==
  [i \in 1..Len(offers) |->
     IF offers[i].status = "PENDING" /\ i # winnerOfferId
       THEN [offers[i] EXCEPT !.status = "REJECTED"]
       ELSE offers[i]]

\* a status write that also clears the score column
updateOfferStatus_ClearScore(offerId, status) ==
  [offers EXCEPT ![offerId].status = status, ![offerId].score = 0]

updateOfferStatus(offerId, status) == [offers EXCEPT ![offerId].status = status]

\* ------------------------------------------------ AuctionEngine.startAuction
InFlight(opName) == Cardinality({c \in Callers : calls[c].op = opName})

\* startAuction without the already-active check
StartAuctionBegin_NoCheck(c) ==
  /\ CanBegin(c)
  /\ nextTimer + InFlight("startAuction") < MaxAuctions
  /\ Admit
  /\ Enter(c, [IdleCall EXCEPT !.op = "startAuction", !.pc = "saRead"])
  /\ UNCHANGED <<storeVars, engineVars, faults, guardCall, offersLeft>>

\* the synchronous head: the already-active check (lines 330-333)
StartAuctionBegin(c) ==
  /\ CanBegin(c)
  /\ nextTimer + InFlight("startAuction") < MaxAuctions
  /\ Admit
  /\ IF activeAuctions # 0
       THEN Enter(c, [Returned("startAuction", NoAgent, "ok") EXCEPT !.found = activeAuctions])
       ELSE Enter(c, [IdleCall EXCEPT !.op = "startAuction", !.pc = "saRead"])
  /\ UNCHANGED <<storeVars, engineVars, faults, guardCall, offersLeft>>

\* updateTaskStatus without its assertValidTransition
StartAuctionRead_NoGuard(c) ==
  /\ At(c, "saRead")
  /\ Goto(c, "saWrite")
  /\ UNCHANGED <<storeVars, engineVars, faults, overlapsLeft, guardCall, offersLeft>>

\* TaskService.updateTaskStatus: getTaskById, then assertValidTransition
StartAuctionRead(c) ==
  /\ At(c, "saRead")
  /\ IF assertValidTransition(taskStatus, "IN_AUCTION") = "ok"
       THEN Goto(c, "saWrite")
       ELSE Return(c, "ConflictError")
  /\ UNCHANGED <<storeVars, engineVars, faults, overlapsLeft, guardCall, offersLeft>>

\* TaskService.updateTaskStatus: prisma.task.update
StartAuctionWrite(c) ==
  /\ At(c, "saWrite")
  /\ taskStatus' = "IN_AUCTION"
  /\ Goto(c, "saArm")
  /\ UNCHANGED <<assignedAgentId, offers, executions, payments, reputationEvents,
                 agents, engineVars, faults, overlapsLeft, guardCall, offersLeft, secondTask, transfers>>

\* setTimeout and activeAuctions.set (lines 339-352)
StartAuctionArm(c) ==
  /\ At(c, "saArm")
  /\ nextTimer' = nextTimer + 1
  /\ timers' = [timers EXCEPT ![nextTimer + 1].pc = "armed"]
  /\ activeAuctions' = nextTimer + 1
  /\ Return(c, "ok")
  /\ UNCHANGED <<storeVars, faults, overlapsLeft, guardCall, offersLeft>>

\* ------------------------------------------------ AuctionEngine.closeAuction
\* the countdown fires: activeAuctions.get (lines 395-400)
TimerFire(t) ==
  /\ TimerAt(t, {"armed"})
  /\ Admit
  /\ timers' = [timers EXCEPT ![t].pc = IF activeAuctions = 0 THEN "done" ELSE "clFetch"]
  /\ UNCHANGED <<storeVars, activeAuctions, nextTimer, calls, faults, guardCall, offersLeft>>

\* offerService.getPendingOffersForTask (line 406)
CloseFetch(t) ==
  /\ TimerAt(t, {"clFetch"})
  /\ \E ids \in getPendingOffersForTask :
       timers' = [timers EXCEPT ![t].fetched = ids,
                                ![t].pc = IF Len(ids) = 0 THEN "clNoRead" ELSE "clAccept"]
  /\ UNCHANGED <<storeVars, activeAuctions, nextTimer, calls, faults, overlapsLeft, guardCall, offersLeft>>

\* no offers: updateTaskStatus(taskId, 'OPEN'), its read (line 410)
CloseNoOffersRead(t) ==
  /\ TimerAt(t, {"clNoRead"})
  /\ timers' = [timers EXCEPT ![t].pc =
                  IF assertValidTransition(taskStatus, "OPEN") = "ok" THEN "clNoWrite" ELSE "clCatchRead"]
  /\ UNCHANGED <<storeVars, activeAuctions, nextTimer, calls, faults, overlapsLeft, guardCall, offersLeft>>

\* the no-offers branch closing the Task instead of reopening it
CloseNoOffersWrite_Cancelled(t) ==
  /\ TimerAt(t, {"clNoWrite"})
  /\ taskStatus' = "CANCELLED"
  /\ timers' = [timers EXCEPT ![t].pc = "clNoDelete"]
  /\ UNCHANGED <<assignedAgentId, offers, executions, payments, reputationEvents,
                 agents, activeAuctions, nextTimer, calls, faults, overlapsLeft, guardCall, offersLeft, secondTask, transfers>>

\* no offers: updateTaskStatus(taskId, 'OPEN'), its write
CloseNoOffersWrite(t) ==
  /\ TimerAt(t, {"clNoWrite"})
  /\ taskStatus' = "OPEN"
  /\ timers' = [timers EXCEPT ![t].pc = "clNoDelete"]
  /\ UNCHANGED <<assignedAgentId, offers, executions, payments, reputationEvents,
                 agents, activeAuctions, nextTimer, calls, faults, overlapsLeft, guardCall, offersLeft, secondTask, transfers>>

\* no offers: activeAuctions.delete, return, and the finally block (lines 419-420, 466)
CloseNoOffersDelete(t) ==
  /\ TimerAt(t, {"clNoDelete"})
  /\ activeAuctions' = 0
  /\ timers' = [timers EXCEPT ![t].pc = "done"]
  /\ UNCHANGED <<storeVars, nextTimer, calls, faults, overlapsLeft, guardCall, offersLeft>>

\* offerService.updateOfferStatus(winningOffer.id, 'ACCEPTED') (lines 424-427)
CloseAccept(t) ==
  /\ TimerAt(t, {"clAccept"})
  /\ offers' = updateOfferStatus(timers[t].fetched[1], "ACCEPTED")
  /\ timers' = [timers EXCEPT ![t].pc = "clReject"]
  /\ UNCHANGED <<taskStatus, assignedAgentId, executions, payments, reputationEvents,
                 agents, activeAuctions, nextTimer, calls, faults, overlapsLeft, guardCall, offersLeft, secondTask, transfers>>

\* offerService.rejectOffersExcept (line 430)
CloseReject(t) ==
  /\ TimerAt(t, {"clReject"})
  /\ offers' = rejectOffersExcept(timers[t].fetched[1])
  /\ timers' = [timers EXCEPT ![t].pc = "clAssignRead"]
  /\ UNCHANGED <<taskStatus, assignedAgentId, executions, payments, reputationEvents,
                 agents, activeAuctions, nextTimer, calls, faults, overlapsLeft, guardCall, offersLeft, secondTask, transfers>>

\* taskService.assignTask: getTaskById and guard.transitionTo('ASSIGNED')
CloseAssignRead(t) ==
  /\ TimerAt(t, {"clAssignRead"})
  /\ timers' = [timers EXCEPT ![t].pc =
                  IF assertValidTransition(taskStatus, "ASSIGNED") = "ok" THEN "clAssignWrite" ELSE "clCatchRead"]
  /\ UNCHANGED <<storeVars, activeAuctions, nextTimer, calls, faults, overlapsLeft, guardCall, offersLeft>>

\* taskService.assignTask: prisma.task.update of assignedAgentId and status
CloseAssignWrite(t) ==
  /\ TimerAt(t, {"clAssignWrite"})
  /\ assignedAgentId' = offers[timers[t].fetched[1]].agentId
  /\ taskStatus' = "ASSIGNED"
  /\ timers' = [timers EXCEPT ![t].pc = "clExecution"]
  /\ UNCHANGED <<offers, executions, payments, reputationEvents,
                 agents, activeAuctions, nextTimer, calls, faults, overlapsLeft, guardCall, offersLeft, secondTask, transfers>>

\* prisma.execution.create (lines 436-442)
CloseCreateExecution(t) ==
  /\ TimerAt(t, {"clExecution"})
  /\ executions' = Append(executions,
                          [taskId |-> "t1", agentId |-> offers[timers[t].fetched[1]].agentId,
                           status |-> "PENDING"])
  /\ timers' = [timers EXCEPT ![t].pc = "clFinally"]
  /\ UNCHANGED <<taskStatus, assignedAgentId, offers, payments, reputationEvents,
                 agents, activeAuctions, nextTimer, calls, faults, overlapsLeft, guardCall, offersLeft, secondTask, transfers>>

\* a store call of the try block throws: control goes to the catch block
CloseStoreFault(t) ==
  /\ TimerAt(t, {"clFetch", "clNoRead", "clNoWrite", "clAccept", "clReject",
                 "clAssignRead", "clAssignWrite", "clExecution"})
  /\ faults < MaxFaults
  /\ faults' = faults + 1
  /\ timers' = [timers EXCEPT ![t].pc = "clCatchRead", ![t].storeFailed = TRUE]
  /\ UNCHANGED <<storeVars, activeAuctions, nextTimer, calls, overlapsLeft, guardCall, offersLeft>>

\* catch: updateTaskStatus(taskId, 'OPEN'), its read (prisma.task.findUnique);
\* the transition is checked when the handler resumes
CloseCatchRead(t) ==
  /\ TimerAt(t, {"clCatchRead"})
  /\ timers' = [timers EXCEPT ![t].pc =
                  IF assertValidTransition(taskStatus, "OPEN") = "ok" THEN "clCatchWrite"
                  ELSE "clCatchThrow"]
  /\ UNCHANGED <<storeVars, activeAuctions, nextTimer, calls, faults, overlapsLeft, guardCall,
                 offersLeft>>

\* closeAuction rejects: the timer callback of startAuction (line 340) drops
\* the promise and index.ts installs no unhandledRejection handler, so Node
\* ends the process.  The timer that ran the close is "exited"; every other
\* countdown and every close in progress is lost with the process.
ProcessExit(t) ==
  [u \in Timers |->
     IF u = t THEN [timers[u] EXCEPT !.pc = "exited"]
     ELSE IF timers[u].pc \in {"unused", "cleared", "done"} THEN timers[u]
     ELSE [timers[u] EXCEPT !.pc = "lost"]]

\* catch: the read has found a status that cannot go to OPEN; the handler
\* resumes, assertValidTransition throws the ConflictError, and the finally
\* block deletes the entry the map holds at that time (line 466)
CloseCatchThrow(t) ==
  /\ TimerAt(t, {"clCatchThrow"})
  /\ activeAuctions' = 0
  /\ timers' = ProcessExit(t)
  /\ UNCHANGED <<storeVars, nextTimer, calls, faults, overlapsLeft, guardCall, offersLeft>>

\* catch: updateTaskStatus(taskId, 'OPEN'), its write
CloseCatchWrite(t) ==
  /\ TimerAt(t, {"clCatchWrite"})
  /\ taskStatus' = "OPEN"
  /\ timers' = [timers EXCEPT ![t].pc = "clFinally"]
  /\ UNCHANGED <<assignedAgentId, offers, executions, payments, reputationEvents,
                 agents, activeAuctions, nextTimer, calls, faults, overlapsLeft, guardCall, offersLeft, secondTask, transfers>>

\* a store call of the catch block throws: the error leaves through finally
\* (line 466) and closeAuction rejects
CloseCatchFault(t) ==
  /\ TimerAt(t, {"clCatchRead", "clCatchWrite"})
  /\ faults < MaxFaults
  /\ faults' = faults + 1
  /\ timers' = [ProcessExit(t) EXCEPT ![t].catchFailed = TRUE]
  /\ activeAuctions' = 0
  /\ UNCHANGED <<storeVars, nextTimer, calls, overlapsLeft, guardCall, offersLeft>>

\* finally: activeAuctions.delete(taskId) (line 466)
CloseFinally(t) ==
  /\ TimerAt(t, {"clFinally"})
  /\ activeAuctions' = 0
  /\ timers' = [timers EXCEPT ![t].pc = "done"]
  /\ UNCHANGED <<storeVars, nextTimer, calls, faults, overlapsLeft, guardCall, offersLeft>>

\* ----------------------------------------------- AuctionEngine.cancelAuction
\* clearTimeout(auction.timer) and activeAuctions.delete (lines 495-503)
clearTimeout(t) ==
  IF timers[t].pc = "armed" THEN [timers EXCEPT ![t].pc = "cleared"] ELSE timers

\* cancelAuction without the early return for a Task that has no auction
CancelAuctionBegin_NoCheck(c) ==
  /\ CanBegin(c)
  /\ Admit
  /\ timers' = IF activeAuctions = 0 THEN timers ELSE clearTimeout(activeAuctions)
  /\ activeAuctions' = 0
  /\ Enter(c, [IdleCall EXCEPT !.op = "cancelAuction", !.pc = "caRead"])
  /\ UNCHANGED <<storeVars, nextTimer, faults, guardCall, offersLeft>>

CancelAuctionBegin(c) ==
  /\ CanBegin(c)
  /\ Admit
  /\ IF activeAuctions = 0
       THEN /\ ReturnAtOnce(c, "cancelAuction", NoAgent, "ok")
            /\ UNCHANGED <<activeAuctions, timers, secondTask, transfers>>
       ELSE /\ timers' = clearTimeout(activeAuctions)
            /\ activeAuctions' = 0
            /\ Enter(c, [IdleCall EXCEPT !.op = "cancelAuction", !.pc = "caRead"])
  /\ UNCHANGED <<storeVars, nextTimer, faults, guardCall, offersLeft>>

\* updateTaskStatus(taskId, 'OPEN'), its read (line 506)
CancelAuctionRead(c) ==
  /\ At(c, "caRead")
  /\ IF assertValidTransition(taskStatus, "OPEN") = "ok"
       THEN Goto(c, "caWrite")
       ELSE Return(c, "ConflictError")
  /\ UNCHANGED <<storeVars, engineVars, faults, overlapsLeft, guardCall, offersLeft>>

\* updateTaskStatus(taskId, 'OPEN'), its write
CancelAuctionWrite(c) ==
  /\ At(c, "caWrite")
  /\ taskStatus' = "OPEN"
  /\ Return(c, "ok")
  /\ UNCHANGED <<assignedAgentId, offers, executions, payments, reputationEvents,
                 agents, engineVars, faults, overlapsLeft, guardCall, offersLeft, secondTask, transfers>>

\* ------------------------------------- POST /:id/cancel, TaskService.cancelTask
\* the users that send the request; the Task was created by TaskCreator
\* (createdByUserId, set by createTask)
Users == {"u1", "u2"}
TaskCreator == "u1"

\* getTaskById, the creator check and guard.assertCanBeCancelled (lines 443-452)
CancelTaskRead(c, userId) ==
  /\ CanBegin(c)
  /\ Admit
  /\ IF TaskCreator # userId
       THEN ReturnAtOnce(c, "cancelTask", NoAgent, "ValidationError")
       ELSE IF canBeCancelled(taskStatus)
         THEN Enter(c, [IdleCall EXCEPT !.op = "cancelTask", !.pc = "ctWrite"])
         ELSE ReturnAtOnce(c, "cancelTask", NoAgent, "ConflictError")
  /\ UNCHANGED <<storeVars, engineVars, faults, guardCall, offersLeft>>

\* prisma.task.update status CANCELLED (lines 454-457)
CancelTaskWrite(c) ==
  /\ At(c, "ctWrite")
  /\ taskStatus' = "CANCELLED"
  /\ Goto(c, "ctRoute")
  /\ UNCHANGED <<assignedAgentId, offers, executions, payments, reputationEvents,
                 agents, engineVars, faults, overlapsLeft, guardCall, offersLeft, secondTask, transfers>>

\* the route: if isAuctionActive then cancelAuction (task.routes.ts lines 167-169)
CancelTaskRoute(c) ==
  /\ At(c, "ctRoute")
  /\ IF activeAuctions = 0
       THEN /\ Return(c, "ok")
            /\ UNCHANGED <<activeAuctions, timers, secondTask, transfers>>
       ELSE /\ timers' = clearTimeout(activeAuctions)
            /\ activeAuctions' = 0
            /\ Goto(c, "caRead")
  /\ UNCHANGED <<storeVars, nextTimer, faults, overlapsLeft, guardCall, offersLeft>>

\* ------------------------------------------------- OfferService.createOffer
\* prisma.task.findUnique and guard.assertCanAcceptOffers (lines 558-568)
SubmitOfferReadTask(c, a, price, eta) ==
  /\ CanBegin(c)
  /\ InFlight("submitOffer") < offersLeft
  /\ Admit
  /\ IF canAcceptOffers(taskStatus)
       THEN Enter(c, [IdleCall EXCEPT !.op = "submitOffer", !.pc = "soAgent",
                                      !.agentId = a, !.price = price, !.eta = eta,
                                      !.late = Closing])
       ELSE ReturnAtOnce(c, "submitOffer", a, "ConflictError")
  /\ UNCHANGED <<storeVars, engineVars, faults, guardCall, offersLeft>>

\* agentService.getAgentById, isActive, hasRequiredCapabilities (lines 571-584)
SubmitOfferReadAgent(c) ==
  /\ At(c, "soAgent")
  /\ IF agents[calls[c].agentId].isActive
        /\ hasRequiredCapabilities(agents[calls[c].agentId], RequiredCapabilities)
       THEN Enter(c, [calls[c] EXCEPT !.pc = "soFind",
                                      !.rep = agents[calls[c].agentId].reputationScore])
       ELSE Return(c, "ValidationError")
  /\ UNCHANGED <<storeVars, engineVars, faults, overlapsLeft, guardCall, offersLeft>>

\* the findFirst without status 'PENDING' in its where clause
SubmitOfferFind_AnyStatus(c) ==
  /\ At(c, "soFind")
  /\ IF \E i \in 1..Len(offers) : offers[i].agentId = calls[c].agentId
       THEN Return(c, "AuctionError")
       ELSE IF calls[c].price > TaskBudget
              THEN Return(c, "ValidationError")
              ELSE Enter(c, [calls[c] EXCEPT !.pc = "soCreate",
                                             !.n1 = computeOfferScore(calls[c].price, calls[c].eta,
                                                                      calls[c].rep)])
  /\ UNCHANGED <<storeVars, engineVars, faults, overlapsLeft, guardCall, offersLeft>>

\* prisma.offer.findFirst PENDING of (task, agent), the budget check and the
\* score (lines 587-611)
SubmitOfferFind(c) ==
  /\ At(c, "soFind")
  /\ IF \E i \in PendingOfferIds : offers[i].agentId = calls[c].agentId
       THEN Return(c, "AuctionError")
       ELSE IF calls[c].price > TaskBudget
              THEN Return(c, "ValidationError")
              ELSE Enter(c, [calls[c] EXCEPT !.pc = "soCreate",
                                             !.n1 = computeOfferScore(calls[c].price, calls[c].eta,
                                                                      calls[c].rep)])
  /\ UNCHANGED <<storeVars, engineVars, faults, overlapsLeft, guardCall, offersLeft>>

\* prisma.offer.create (lines 614-623)
SubmitOfferCreate(c) ==
  /\ At(c, "soCreate")
  /\ offers' = Append(offers, [agentId |-> calls[c].agentId, price |-> calls[c].price,
                               eta |-> calls[c].eta, score |-> calls[c].n1,
                               status |-> "PENDING"])
  /\ offersLeft' = offersLeft - 1
  /\ Return(c, "ok")
  /\ UNCHANGED <<taskStatus, assignedAgentId, executions, payments, reputationEvents,
                 agents, engineVars, faults, overlapsLeft, guardCall, secondTask, transfers>>

\* --------------------------------------------- ExecutionService.startExecution
\* the Execution rows of an agent with a status, over all Tasks
ExecutionIds(a, status) ==
  {i \in 1..Len(executions) : executions[i].agentId = a /\ executions[i].status = status}

\* where { taskId, agentId, status }
TaskExecutionIds(task, a, status) ==
  {i \in ExecutionIds(a, status) : executions[i].taskId = task}

\* prisma.task.findUnique, the assigned-agent check, guard.assertCanStartExecution
StartExecutionRead(c, a) ==
  /\ CanBegin(c)
  /\ Admit
  /\ IF assignedAgentId # a
       THEN ReturnAtOnce(c, "startExecution", a, "ValidationError")
       ELSE IF ~canStartExecution(taskStatus)
              THEN ReturnAtOnce(c, "startExecution", a, "ConflictError")
              ELSE Enter(c, [IdleCall EXCEPT !.op = "startExecution", !.pc = "seFind",
                                             !.agentId = a])
  /\ UNCHANGED <<storeVars, engineVars, faults, guardCall, offersLeft>>

\* prisma.execution.findFirst PENDING of (task, agent) (lines 563-569)
StartExecutionFind(c) ==
  /\ At(c, "seFind")
  /\ IF TaskExecutionIds("t1", calls[c].agentId, "PENDING") = {}
       THEN Goto(c, "seCreate")
       ELSE \E i \in TaskExecutionIds("t1", calls[c].agentId, "PENDING") :
              Enter(c, [calls[c] EXCEPT !.pc = "seUpdate", !.found = i])
  /\ UNCHANGED <<storeVars, engineVars, faults, overlapsLeft, guardCall, offersLeft>>

\* prisma.execution.create when none was found (lines 571-579)
StartExecutionCreate(c) ==
  /\ At(c, "seCreate")
  /\ executions' = Append(executions, [taskId |-> "t1", agentId |-> calls[c].agentId,
                                       status |-> "PENDING"])
  /\ Enter(c, [calls[c] EXCEPT !.pc = "seUpdate", !.found = Len(executions) + 1])
  /\ UNCHANGED <<taskStatus, assignedAgentId, offers, payments, reputationEvents,
                 agents, engineVars, faults, overlapsLeft, guardCall, offersLeft, secondTask, transfers>>

\* prisma.execution.update status RUNNING (lines 582-588)
StartExecutionUpdate(c) ==
  /\ At(c, "seUpdate")
  /\ executions' = [executions EXCEPT ![calls[c].found].status = "RUNNING"]
  /\ Goto(c, "seTask")
  /\ UNCHANGED <<taskStatus, assignedAgentId, offers, payments, reputationEvents,
                 agents, engineVars, faults, overlapsLeft, guardCall, offersLeft, secondTask, transfers>>

\* prisma.task.update status RUNNING (lines 591-594)
StartExecutionTask(c) ==
  /\ At(c, "seTask")
  /\ taskStatus' = "RUNNING"
  /\ Return(c, "ok")
  /\ UNCHANGED <<assignedAgentId, offers, executions, payments, reputationEvents,
                 agents, engineVars, faults, overlapsLeft, guardCall, offersLeft, secondTask, transfers>>

\* ----------------------------------------- ReputationService, AgentService
MIN_SCORE == 0
MAX_SCORE == 500
EVENT_WINDOW == 100
\* the deltas of completeExecution, in hundredths: +0.1 and -0.2
SUCCESS_DELTA == 10
FAILURE_DELTA == -20

\* prisma.reputationEvent.findMany of the agent, createdAt desc, take 100:
\* the deltas, newest first
\* the deltas, newest first: the walk goes from the newest event (index n) down
\* and stops once room events of the agent have been taken
RECURSIVE NewestDeltas(_, _, _)
NewestDeltas(a, n, room) ==
  IF n = 0 \/ room = 0 THEN <<>>
  ELSE IF reputationEvents[n].agentId = a
         THEN <<reputationEvents[n].deltaScore>> \o NewestDeltas(a, n - 1, room - 1)
         ELSE NewestDeltas(a, n - 1, room)

RecentDeltas(a) == NewestDeltas(a, Len(reputationEvents), EVENT_WINDOW)

RECURSIVE Pow(_, _)
Pow(b, e) == IF e = 0 THEN 1 ELSE b * Pow(b, e - 1)

RECURSIVE SumOver(_, _, _)
SumOver(f(_), i, n) == IF i > n THEN 0 ELSE f(i) + SumOver(f, i + 1, n)

\* ReputationService.recomputeAgentScore on the deltas, newest first.  The
\* weight of the i-th newest event is 0.95^i = 19^i / 20^i; weightedSum and
\* totalWeight are both scaled by 20^(n-1).  Deltas and the score are
\* hundredths, so the unrounded score is 300 + weightedSum / totalWeight.
DecayedScore(deltas) ==
  IF Len(deltas) = 0 THEN BASE_SCORE
  ELSE LET n == Len(deltas)
           W(i) == Pow(19, i - 1) * Pow(20, n - i)
           WD(i) == deltas[i] * W(i)
           weightedSum == SumOver(WD, 1, n)
           totalWeight == SumOver(W, 1, n)
           num == BASE_SCORE * totalWeight + weightedSum
       IN IF num < MIN_SCORE * totalWeight THEN MIN_SCORE
          ELSE IF num > MAX_SCORE * totalWeight THEN MAX_SCORE
          ELSE RoundDiv(num, totalWeight)

\* the plain sum written without the clamp
SummedScore_Unclamped(deltas) ==
  LET D(i) == deltas[i]
  IN BASE_SCORE + SumOver(D, 1, Len(deltas))

\* AgentService.recomputeStats: 3.0 plus the plain sum of the deltas, clamped
SummedScore(deltas) ==
  LET D(i) == deltas[i]
      sum == BASE_SCORE + SumOver(D, 1, Len(deltas))
  IN IF sum < MIN_SCORE THEN MIN_SCORE ELSE IF sum > MAX_SCORE THEN MAX_SCORE ELSE sum

\* ------------------------------------------ ExecutionService.completeExecution
\* prisma.task.findUnique({ where: { id: taskId } })
TaskRow(task) ==
  IF task = "t1" THEN [status |-> taskStatus, assignedAgentId |-> assignedAgentId]
  ELSE secondTask

\* the route-local schema of task.routes.ts: success a boolean, errorMessage
\* an optional string
completeExecutionSchema(success, errorMessage) ==
  success \in BOOLEAN /\ errorMessage \in ErrorMessages

\* completeExecutionSchema.parse, prisma.task.findUnique, the assigned-agent
\* check, guard.assertCanComplete
CompleteExecutionRead(c, task, a, success, errorMessage) ==
  /\ CanBegin(c)
  /\ Admit
  /\ IF ~completeExecutionSchema(success, errorMessage)
       THEN Enter(c, [Returned("completeExecution", a, "ValidationError") EXCEPT !.taskId = task])
       ELSE IF TaskRow(task).status = "absent"
       THEN Enter(c, [Returned("completeExecution", a, "NotFoundError") EXCEPT !.taskId = task])
       ELSE IF TaskRow(task).assignedAgentId # a
       THEN Enter(c, [Returned("completeExecution", a, "ValidationError") EXCEPT !.taskId = task])
       ELSE IF ~canComplete(TaskRow(task).status)
              THEN Enter(c, [Returned("completeExecution", a, "ConflictError")
                               EXCEPT !.taskId = task])
              ELSE Enter(c, [IdleCall EXCEPT !.op = "completeExecution", !.pc = "ceFind",
                                             !.taskId = task, !.agentId = a,
                                             !.success = success,
                                             !.errorMessage = errorMessage])
  /\ UNCHANGED <<storeVars, engineVars, faults, guardCall, offersLeft>>

\* prisma.execution.findFirst RUNNING of (task, agent) (lines 631-641)
CompleteExecutionFind(c) ==
  /\ At(c, "ceFind")
  /\ IF TaskExecutionIds(calls[c].taskId, calls[c].agentId, "RUNNING") = {}
       THEN Return(c, "NotFoundError")
       ELSE \E i \in TaskExecutionIds(calls[c].taskId, calls[c].agentId, "RUNNING") :
              Enter(c, [calls[c] EXCEPT !.pc = "ceUpdate", !.found = i])
  /\ UNCHANGED <<storeVars, engineVars, faults, overlapsLeft, guardCall, offersLeft>>

\* prisma.execution.update status SUCCESS or FAILURE (lines 647-657)
CompleteExecutionUpdate(c) ==
  /\ At(c, "ceUpdate")
  /\ executions' = [executions EXCEPT ![calls[c].found].status =
                      IF calls[c].success THEN "SUCCESS" ELSE "FAILURE"]
  /\ Goto(c, "ceTask")
  /\ UNCHANGED <<taskStatus, assignedAgentId, offers, payments, reputationEvents,
                 agents, engineVars, faults, overlapsLeft, guardCall, offersLeft, secondTask, transfers>>

\* the payment requested on either outcome
CompleteExecutionTask_AlwaysPays(c) ==
  /\ At(c, "ceTask")
  /\ LET status == IF calls[c].success THEN "COMPLETED" ELSE "FAILED"
     IN IF calls[c].taskId = "t1"
          THEN taskStatus' = status /\ UNCHANGED secondTask
          ELSE secondTask' = [secondTask EXCEPT !.status = status] /\ UNCHANGED taskStatus
  /\ Goto(c, "cePayment")
  /\ UNCHANGED <<assignedAgentId, offers, executions, payments, reputationEvents,
                 agents, engineVars, faults, overlapsLeft, guardCall, offersLeft, transfers>>

\* prisma.task.update status COMPLETED or FAILED (lines 664-667, 695-698)
CompleteExecutionTask(c) ==
  /\ At(c, "ceTask")
  /\ LET status == IF calls[c].success THEN "COMPLETED" ELSE "FAILED"
     IN IF calls[c].taskId = "t1"
          THEN taskStatus' = status /\ UNCHANGED secondTask
          ELSE secondTask' = [secondTask EXCEPT !.status = status] /\ UNCHANGED taskStatus
  /\ Goto(c, IF calls[c].success THEN "cePayment" ELSE "ceEvent")
  /\ UNCHANGED <<assignedAgentId, offers, executions, payments, reputationEvents,
                 agents, engineVars, faults, overlapsLeft, guardCall, offersLeft, transfers>>

\* paymentService.createPendingPayment (lines 670-675)
CompleteExecutionPayment(c) ==
  /\ At(c, "cePayment")
  /\ payments' = Append(payments, [taskId |-> calls[c].taskId, agentId |-> calls[c].agentId,
                                   amountLamports |-> TaskBudget,
                                   status |-> "PENDING"])
  /\ Goto(c, "ceEvent")
  /\ UNCHANGED <<taskStatus, assignedAgentId, offers, executions, reputationEvents,
                 agents, engineVars, faults, overlapsLeft, guardCall, offersLeft, secondTask, transfers>>

\* paymentService.createPendingPayment throws (prisma.payment.create fails):
\* the await at lines 670-675 is in no try block, so completeExecution throws
\* and the route answers 500 INTERNAL_ERROR
CompleteExecutionPaymentFault(c) ==
  /\ At(c, "cePayment")
  /\ faults < MaxFaults
  /\ faults' = faults + 1
  /\ Return(c, "InternalError")
  /\ UNCHANGED <<storeVars, engineVars, overlapsLeft, guardCall, offersLeft>>

\* reputationService.applyEvent: prisma.reputationEvent.create
CompleteExecutionEvent(c) ==
  /\ At(c, "ceEvent")
  /\ reputationEvents' = Append(reputationEvents,
                                [taskId |-> calls[c].taskId, agentId |-> calls[c].agentId,
                                 deltaScore |-> IF calls[c].success THEN SUCCESS_DELTA
                                                ELSE FAILURE_DELTA])
  /\ Goto(c, "ceScoreRead")
  /\ UNCHANGED <<taskStatus, assignedAgentId, offers, executions, payments,
                 agents, engineVars, faults, overlapsLeft, guardCall, offersLeft, secondTask, transfers>>

\* recomputeAgentScore: prisma.reputationEvent.findMany and the decayed sum
CompleteExecutionScoreRead(c) ==
  /\ At(c, "ceScoreRead")
  /\ Enter(c, [calls[c] EXCEPT !.pc = "ceScoreWrite",
                                 !.rep = DecayedScore(RecentDeltas(calls[c].agentId))])
  /\ UNCHANGED <<storeVars, engineVars, faults, overlapsLeft, guardCall, offersLeft>>

\* recomputeAgentScore: prisma.agent.update reputationScore
CompleteExecutionScoreWrite(c) ==
  /\ At(c, "ceScoreWrite")
  /\ agents' = [agents EXCEPT ![calls[c].agentId].reputationScore = calls[c].rep]
  /\ Enter(c, [calls[c] EXCEPT !.pc = "ceStatsAgent", !.rep = 0])
  /\ UNCHANGED <<taskStatus, assignedAgentId, offers, executions, payments,
                 reputationEvents, engineVars, faults, overlapsLeft, guardCall, offersLeft, secondTask, transfers>>

\* recomputeStats: getAgentById, prisma.agent.findUnique (line 412); the row
\* read is not used afterwards
CompleteExecutionStatsAgent(c) ==
  /\ At(c, "ceStatsAgent")
  /\ Goto(c, "ceStatsExecutions")
  /\ UNCHANGED <<storeVars, engineVars, faults, overlapsLeft, guardCall, offersLeft>>

\* recomputeStats: prisma.execution.findMany of the agent, the two counts
CompleteExecutionStatsExecutions(c) ==
  /\ At(c, "ceStatsExecutions")
  /\ Enter(c, [calls[c] EXCEPT !.pc = "ceStatsEvents",
                                 !.n1 = Cardinality(ExecutionIds(calls[c].agentId, "SUCCESS")),
                                 !.n2 = Cardinality(ExecutionIds(calls[c].agentId, "FAILURE"))])
  /\ UNCHANGED <<storeVars, engineVars, faults, overlapsLeft, guardCall, offersLeft>>

\* recomputeStats: prisma.reputationEvent.findMany and the plain sum
CompleteExecutionStatsEvents(c) ==
  /\ At(c, "ceStatsEvents")
  /\ Enter(c, [calls[c] EXCEPT !.pc = "ceStatsWrite",
                                 !.rep = SummedScore(RecentDeltas(calls[c].agentId))])
  /\ UNCHANGED <<storeVars, engineVars, faults, overlapsLeft, guardCall, offersLeft>>

\* recomputeStats: prisma.agent.update of the counters and reputationScore
CompleteExecutionStatsWrite(c) ==
  /\ At(c, "ceStatsWrite")
  /\ agents' = [agents EXCEPT ![calls[c].agentId].reputationScore = calls[c].rep,
                             ![calls[c].agentId].totalTasksCompleted = calls[c].n1,
                             ![calls[c].agentId].totalTasksFailed = calls[c].n2]
  /\ Return(c, "ok")
  /\ UNCHANGED <<taskStatus, assignedAgentId, offers, executions, payments,
                 reputationEvents, engineVars, faults, overlapsLeft, guardCall, offersLeft, secondTask, transfers>>

\* ----------------------------------------------- PaymentService.settlePayment
\* prisma.payment.findUnique, the not-found and the PENDING checks
\* (lines 320-333); paymentId is the position of the Payment in the table
SettlePaymentRead(c, paymentId) ==
  /\ CanBegin(c)
  /\ Len(transfers) + InFlight("settlePayment") < MaxSettles
  /\ Admit
  /\ IF paymentId > Len(payments)
       THEN ReturnAtOnce(c, "settlePayment", NoAgent, "NotFoundError")
       ELSE IF payments[paymentId].status # "PENDING"
         THEN Enter(c, [Returned("settlePayment", NoAgent, "ConflictError")
                          EXCEPT !.found = paymentId])
         ELSE Enter(c, [IdleCall EXCEPT !.op = "settlePayment", !.pc = "spSend",
                                        !.found = paymentId])
  /\ UNCHANGED <<storeVars, engineVars, faults, guardCall, offersLeft>>

\* this.solanaClient.sendPayment returns a txHash (lines 337-341)
SettlePaymentSend(c) ==
  /\ At(c, "spSend")
  /\ transfers' = Append(transfers, calls[c].found)
  /\ Goto(c, "spUpdate")
  /\ UNCHANGED <<taskStatus, assignedAgentId, offers, executions, payments, reputationEvents,
                 agents, engineVars, faults, overlapsLeft, guardCall, offersLeft, secondTask>>

\* this.solanaClient.sendPayment throws after it was invoked: the catch block
SettlePaymentSendFault(c) ==
  /\ At(c, "spSend")
  /\ faults < MaxFaults
  /\ faults' = faults + 1
  /\ transfers' = Append(transfers, calls[c].found)
  /\ Goto(c, "spFailed")
  /\ UNCHANGED <<taskStatus, assignedAgentId, offers, executions, payments, reputationEvents,
                 agents, engineVars, overlapsLeft, guardCall, offersLeft, secondTask>>

\* prisma.payment.update status COMPLETED, txHash (lines 344-350)
SettlePaymentUpdate(c) ==
  /\ At(c, "spUpdate")
  /\ payments' = [payments EXCEPT ![calls[c].found].status = "COMPLETED"]
  /\ Return(c, "ok")
  /\ UNCHANGED <<taskStatus, assignedAgentId, offers, executions, reputationEvents,
                 agents, engineVars, faults, overlapsLeft, guardCall, offersLeft, secondTask,
                 transfers>>

\* prisma.payment.update status COMPLETED throws after the transfer was sent:
\* the update sits in the same try as sendPayment, so the catch block runs
SettlePaymentUpdateFault(c) ==
  /\ At(c, "spUpdate")
  /\ faults < MaxFaults
  /\ faults' = faults + 1
  /\ Goto(c, "spFailed")
  /\ UNCHANGED <<storeVars, engineVars, overlapsLeft, guardCall, offersLeft>>

\* catch: prisma.payment.update status FAILED, and the error rethrown (lines 361-370)
SettlePaymentMarkFailed(c) ==
  /\ At(c, "spFailed")
  /\ payments' = [payments EXCEPT ![calls[c].found].status = "FAILED"]
  /\ Return(c, "InternalError")
  /\ UNCHANGED <<taskStatus, assignedAgentId, offers, executions, reputationEvents,
                 agents, engineVars, faults, overlapsLeft, guardCall, offersLeft, secondTask,
                 transfers>>

\* ------------------------------------------------ PaymentService.refundPayment
\* getPaymentById (prisma.payment.findUnique, the not-found check) and the
\* COMPLETED check (lines 445-449)
RefundPaymentRead(c, paymentId) ==
  /\ CanBegin(c)
  /\ Admit
  /\ IF paymentId > Len(payments)
       THEN ReturnAtOnce(c, "refundPayment", NoAgent, "NotFoundError")
       ELSE IF payments[paymentId].status # "COMPLETED"
         THEN Enter(c, [Returned("refundPayment", NoAgent, "ConflictError")
                          EXCEPT !.found = paymentId])
         ELSE Enter(c, [IdleCall EXCEPT !.op = "refundPayment", !.pc = "rpWrite",
                                        !.found = paymentId])
  /\ UNCHANGED <<storeVars, engineVars, faults, guardCall, offersLeft>>

\* prisma.payment.update status REFUNDED (lines 454-457)
RefundPaymentWrite(c) ==
  /\ At(c, "rpWrite")
  /\ payments' = [payments EXCEPT ![calls[c].found].status = "REFUNDED"]
  /\ Return(c, "ok")
  /\ UNCHANGED <<taskStatus, assignedAgentId, offers, executions, reputationEvents,
                 agents, engineVars, faults, overlapsLeft, guardCall, offersLeft, secondTask,
                 transfers>>

\* ------------------------------------------------- OfferService.cancelOffer
\* getOfferById, the owner check and the PENDING check (lines 771-779);
\* offerId is the position of the Offer in the table
CancelOfferRead(c, offerId, a) ==
  /\ CanBegin(c)
  /\ Admit
  /\ IF offerId > Len(offers)
       THEN ReturnAtOnce(c, "cancelOffer", a, "NotFoundError")
       ELSE IF offers[offerId].agentId # a
         THEN ReturnAtOnce(c, "cancelOffer", a, "ValidationError")
         ELSE IF offers[offerId].status # "PENDING"
           THEN ReturnAtOnce(c, "cancelOffer", a, "AuctionError")
           ELSE Enter(c, [IdleCall EXCEPT !.op = "cancelOffer", !.pc = "coWrite",
                                          !.agentId = a, !.found = offerId])
  /\ UNCHANGED <<storeVars, engineVars, faults, guardCall, offersLeft>>

\* updateOfferStatus(offerId, 'CANCELLED') (line 781)
CancelOfferWrite(c) ==
  /\ At(c, "coWrite")
  /\ offers' = updateOfferStatus(calls[c].found, "CANCELLED")
  /\ Return(c, "ok")
  /\ UNCHANGED <<taskStatus, assignedAgentId, executions, payments, reputationEvents,
                 agents, engineVars, faults, overlapsLeft, guardCall, offersLeft, secondTask, transfers>>

\* ------------------------------------------- AuctionEngine.getTimeRemaining
\* config.auction.windowMs
WindowMs == 15000

\* Date.now() - auction.startedAt.getTime(), in milliseconds: the wall clock
\* at the call, which a clock adjustment can also set back
ElapsedTimes == {-1, 0, 14999, 15000, 15001, 30000}

\* the remaining time returned without Math.max(0, ..)
getTimeRemaining_Unclamped(auction, elapsed) ==
  IF auction = 0
    THEN [null |-> TRUE, remaining |-> 0]
    ELSE [null |-> FALSE, remaining |-> WindowMs - elapsed]

\* auction is the entry of activeAuctions for the Task (0: no entry)
getTimeRemaining(auction, elapsed) ==
  IF auction = 0
    THEN [null |-> TRUE, remaining |-> 0]
    ELSE [null |-> FALSE,
          remaining |-> IF WindowMs - elapsed > 0 THEN WindowMs - elapsed ELSE 0]

\* the call is synchronous: it runs between two steps of whatever else is
\* in progress, a window close included
GetTimeRemainingCall(c, elapsed) ==
  /\ CanBegin(c)
  /\ LET r == getTimeRemaining(activeAuctions, elapsed)
     IN Enter(c, [Returned("getTimeRemaining", NoAgent, IF r.null THEN "null" ELSE "number")
                    EXCEPT !.found = activeAuctions, !.n1 = elapsed, !.n2 = r.remaining])
  /\ UNCHANGED <<storeVars, engineVars, faults, overlapsLeft, guardCall, offersLeft>>

\* --------------------------------- OfferService.computeOfferScore, called directly
\* prices in lamports and ETAs in seconds: small ones and two neighbours at
\* a million
ScoreArguments == {1, 2, 3, 1000000, 1000001}
\* reputation scores in hundredths
Reputations == {0, 300, 301, 499, 500}

ComputeOfferScoreCall(c, price, eta, reputation) ==
  /\ CanBegin(c)
  /\ ~Busy
  /\ Enter(c, [Returned("computeOfferScore", NoAgent, "ok") EXCEPT
                  !.price = price, !.eta = eta, !.rep = reputation,
                  !.n1 = computeOfferScore(price, eta, reputation)])
  /\ UNCHANGED <<storeVars, engineVars, faults, overlapsLeft, guardCall, offersLeft>>

NextScore ==
  \/ \E c \in Callers : Acknowledge(c)
  \/ \E c \in Callers, price \in ScoreArguments, eta \in ScoreArguments,
        reputation \in Reputations : ComputeOfferScoreCall(c, price, eta, reputation)

SpecScore == Init /\ [][NextScore]_vars

\* ------------------------------- ReputationService.applyEvent, called directly
\* deltas of the events applied by a direct call, in hundredths: two extreme
\* events (-5.0, +5.0)
EventDeltas == {-500, 500}
RatedAgents == {"a1", "a2"}

\* prisma.reputationEvent.create (lines 812-819)
ApplyEventCreate(c, a, delta) ==
  /\ CanBegin(c)
  /\ Len(reputationEvents) < MaxEvents
  /\ Admit
  /\ reputationEvents' = Append(reputationEvents,
                                [taskId |-> "t1", agentId |-> a, deltaScore |-> delta])
  /\ Enter(c, [IdleCall EXCEPT !.op = "applyEvent", !.pc = "aeScoreRead", !.agentId = a])
  /\ UNCHANGED <<taskStatus, assignedAgentId, offers, executions, payments,
                 agents, engineVars, faults, guardCall, offersLeft, secondTask, transfers>>

\* ReputationService.applyBonus: applyEvent with deltaScore 0.25, in hundredths
ApplyBonus(c, a) == ApplyEventCreate(c, a, 25)

\* ReputationService.applyPenalty: applyEvent with deltaScore -0.3, in hundredths
ApplyPenalty(c, a) == ApplyEventCreate(c, a, -30)

\* recomputeAgentScore: prisma.reputationEvent.findMany and the decayed sum
ApplyEventScoreRead(c) ==
  /\ At(c, "aeScoreRead")
  /\ Enter(c, [calls[c] EXCEPT !.pc = "aeScoreWrite",
                                 !.rep = DecayedScore(RecentDeltas(calls[c].agentId))])
  /\ UNCHANGED <<storeVars, engineVars, faults, overlapsLeft, guardCall, offersLeft>>

\* recomputeAgentScore: prisma.agent.update reputationScore
ApplyEventScoreWrite(c) ==
  /\ At(c, "aeScoreWrite")
  /\ agents' = [agents EXCEPT ![calls[c].agentId].reputationScore = calls[c].rep]
  /\ Return(c, "ok")
  /\ UNCHANGED <<taskStatus, assignedAgentId, offers, executions, payments,
                 reputationEvents, engineVars, faults, overlapsLeft, guardCall, offersLeft, secondTask, transfers>>

\* AgentService.recomputeStats called directly: getAgentById (line 412); the
\* rest of it is CompleteExecutionStatsExecutions, -StatsEvents, -StatsWrite
RecomputeStatsBegin(c, a) ==
  /\ CanBegin(c)
  /\ Admit
  /\ Enter(c, [IdleCall EXCEPT !.op = "recomputeStats", !.pc = "ceStatsExecutions",
                                !.agentId = a])
  /\ UNCHANGED <<storeVars, engineVars, faults, guardCall, offersLeft>>

\* -------------------------------------------------- AgentService.updateAgent
\* the user that registered the Agents (createAgent's ownerUserId)
AgentOwner == [a \in Agents |-> "u2"]

\* PATCH /api/agents/:id: getAgentById, the ownership check and the parse of
\* the body (agent.routes.ts 106-118). An optional field of the body is a
\* sequence: empty when the field is absent, else holding its value
UpdateAgentRoute(c, userId, a, isActive, capabilities) ==
  /\ CanBegin(c)
  /\ Admit
  /\ IF AgentOwner[a] # userId
       THEN ReturnAtOnce(c, "updateAgent", a, "FORBIDDEN")
       ELSE Enter(c, [IdleCall EXCEPT !.op = "updateAgent", !.pc = "uaRead", !.agentId = a,
                                      !.isActive = isActive, !.capabilities = capabilities])
  /\ UNCHANGED <<storeVars, engineVars, faults, guardCall, offersLeft>>

\* updateAgent's own getAgentById, the existence check (part_002 line 391)
UpdateAgentRead(c) ==
  /\ At(c, "uaRead")
  /\ Goto(c, "uaWrite")
  /\ UNCHANGED <<storeVars, engineVars, faults, overlapsLeft, guardCall, offersLeft>>

\* prisma.agent.update with the fields the input holds (lines 393-401)
UpdateAgentWrite(c) ==
  /\ At(c, "uaWrite")
  /\ agents' = [agents EXCEPT
                  ![calls[c].agentId].isActive =
                     IF calls[c].isActive = <<>> THEN @ ELSE calls[c].isActive[1],
                  ![calls[c].agentId].capabilities =
                     IF calls[c].capabilities = <<>> THEN @ ELSE calls[c].capabilities[1]]
  /\ Return(c, "ok")
  /\ UNCHANGED <<taskStatus, assignedAgentId, offers, executions, payments,
                 reputationEvents, engineVars, faults, overlapsLeft, guardCall, offersLeft, secondTask, transfers>>

\* ------------------------------------------ direct calls of the state machine
AssertValidTransitionCall(from, to) ==
  /\ guardCall' = [fn |-> "assertValidTransition", from |-> from, to |-> to,
                   outcome |-> assertValidTransition(from, to)]
  /\ UNCHANGED <<storeVars, engineVars, calls, faults, overlapsLeft, offersLeft>>

\* TaskStatusGuard.transitionTo: the new guard's status, or the error
TransitionToCall(from, to) ==
  /\ guardCall' = [fn |-> "transitionTo", from |-> from, to |-> to,
                   outcome |-> IF assertValidTransition(from, to) = "ok" THEN to
                               ELSE assertValidTransition(from, to)]
  /\ UNCHANGED <<storeVars, engineVars, calls, faults, overlapsLeft, offersLeft>>

\* TaskStatusGuard.canTransitionTo
CanTransitionToCall(from, to) ==
  /\ guardCall' = [fn |-> "canTransitionTo", from |-> from, to |-> to,
                   outcome |-> IF isValidTransition(from, to) THEN "true" ELSE "false"]
  /\ UNCHANGED <<storeVars, engineVars, calls, faults, overlapsLeft, offersLeft>>

\* the status predicates of utils/state-machine.ts (lines 61-91)
StatusPredicate(fn, status) ==
  CASE fn = "canAcceptOffers" -> canAcceptOffers(status)
    [] fn = "canBeCancelled" -> canBeCancelled(status)
    [] fn = "canStartExecution" -> canStartExecution(status)
    [] fn = "canComplete" -> canComplete(status)
    [] fn = "isTerminal" -> isTerminal(status)

StatusPredicateCall(fn, status) ==
  /\ guardCall' = [fn |-> fn, from |-> status, to |-> "-",
                   outcome |-> IF StatusPredicate(fn, status) THEN "true" ELSE "false"]
  /\ UNCHANGED <<storeVars, engineVars, calls, faults, overlapsLeft, offersLeft>>

\* ---------------------------------------------------------- specifications
\* the steps of the handlers that a run without overlap can take
SerialStep(c) ==
  \/ StartAuctionBegin(c) \/ StartAuctionRead(c) \/ StartAuctionWrite(c) \/ StartAuctionArm(c)
  \/ CancelAuctionBegin(c) \/ CancelAuctionRead(c) \/ CancelAuctionWrite(c)
  \/ \E userId \in Users : CancelTaskRead(c, userId)
  \/ CancelTaskWrite(c) \/ CancelTaskRoute(c)
  \/ \E a \in Agents, price \in Prices, eta \in Etas : SubmitOfferReadTask(c, a, price, eta)
  \/ SubmitOfferReadAgent(c) \/ SubmitOfferFind(c) \/ SubmitOfferCreate(c)
  \/ \E a \in Agents : StartExecutionRead(c, a)
  \/ StartExecutionFind(c) \/ StartExecutionUpdate(c)
  \/ StartExecutionTask(c)
  \/ \E a \in Agents, success \in BOOLEAN :
       CompleteExecutionRead(c, "t1", a, success, NoMessage)
  \/ CompleteExecutionFind(c) \/ CompleteExecutionUpdate(c) \/ CompleteExecutionTask(c)
  \/ CompleteExecutionPayment(c) \/ CompleteExecutionEvent(c)
  \/ CompleteExecutionScoreRead(c) \/ CompleteExecutionScoreWrite(c)
  \/ CompleteExecutionStatsAgent(c)
  \/ CompleteExecutionStatsExecutions(c) \/ CompleteExecutionStatsEvents(c)
  \/ CompleteExecutionStatsWrite(c)

\* startExecution creates the Execution only when it finds none PENDING: the
\* close creates it before the Task is ASSIGNED for good (a close that fails
\* to create it ends the process), so this branch needs two overlapping
\* startExecution calls
CallerStep(c) == SerialStep(c) \/ StartExecutionCreate(c)

CloseStep(t) ==
  \/ TimerFire(t) \/ CloseFetch(t)
  \/ CloseNoOffersRead(t) \/ CloseNoOffersWrite(t) \/ CloseNoOffersDelete(t)
  \/ CloseAccept(t) \/ CloseReject(t) \/ CloseAssignRead(t) \/ CloseAssignWrite(t)
  \/ CloseCreateExecution(t) \/ CloseCatchRead(t) \/ CloseCatchThrow(t)
  \/ CloseCatchWrite(t) \/ CloseFinally(t)

FaultStep(t) == CloseStoreFault(t) \/ CloseCatchFault(t)

Next ==
  \/ \E c \in Callers : Acknowledge(c)
  \/ \E c \in Callers : CallerStep(c)
  \/ \E t \in Timers : CloseStep(t)
  \/ \E t \in Timers : FaultStep(t)

Spec == Init /\ [][Next]_vars

\* the helpers of utils/state-machine.ts called on every pair of statuses
NextGuard ==
  \E from \in TaskStatuses, to \in TaskStatuses :
    \/ AssertValidTransitionCall(from, to)
    \/ TransitionToCall(from, to)
    \/ CanTransitionToCall(from, to)

SpecGuard == Init /\ [][NextGuard]_vars

\* every exported function of utils/state-machine.ts called on every status
NextPredicates ==
  \/ \E from \in TaskStatuses, to \in TaskStatuses :
       \/ AssertValidTransitionCall(from, to)
       \/ TransitionToCall(from, to)
       \/ CanTransitionToCall(from, to)
  \/ \E fn \in {"canAcceptOffers", "canBeCancelled", "canStartExecution", "canComplete",
                 "isTerminal"},
        status \in TaskStatuses : StatusPredicateCall(fn, status)

SpecPredicates == Init /\ [][NextPredicates]_vars

\* no handler or callback starts while another one is running (store calls
\* may still throw)
NextSerial ==
  \/ \E c \in Callers : Acknowledge(c)
  \/ \E c \in Callers : SerialStep(c)
  \/ \E t \in Timers : CloseStep(t)
  \/ \E t \in Timers : FaultStep(t)

SpecSerial == InitSerial /\ [][NextSerial]_vars

\* Agent a1 has won the auctions of Tasks t1 and t2 and has started both
\* executions
TwoRunning ==
  /\ taskStatus = "RUNNING"
  /\ assignedAgentId = "a1"
  /\ secondTask = [status |-> "RUNNING", assignedAgentId |-> "a1"]
  /\ offers = <<[agentId |-> "a1", price |-> 1, eta |-> 1,
                 score |-> computeOfferScore(1, 1, BASE_SCORE), status |-> "ACCEPTED"]>>
  /\ executions = <<[taskId |-> "t1", agentId |-> "a1", status |-> "RUNNING"],
                    [taskId |-> "t2", agentId |-> "a1", status |-> "RUNNING"]>>
  /\ payments = <<>>
  /\ transfers = <<>>
  /\ reputationEvents = <<>>
  /\ agents = [a \in Agents |->
                 [reputationScore |-> BASE_SCORE, totalTasksCompleted |-> 0,
                  totalTasksFailed |-> 0, isActive |-> AgentIsActive[a],
                  capabilities |-> AgentCapabilities[a]]]
  /\ activeAuctions = 0
  /\ timers = [t \in Timers |->
                 IF t = 1 THEN [UnusedTimer EXCEPT !.pc = "done", !.fetched = <<1>>]
                 ELSE UnusedTimer]
  /\ nextTimer = 1
  /\ calls = [c \in Callers |-> IdleCall]
  /\ faults = 0
  /\ guardCall = IdleGuardCall
  /\ offersLeft = MaxOffers - 1

InitAgent == TwoRunning /\ overlapsLeft = MaxOverlaps

InitAgentSerial == TwoRunning /\ overlapsLeft = 0

\* Agent a1 has completed Tasks t1 and t2: a PENDING Payment exists for each
InitSettle ==
  /\ taskStatus = "COMPLETED"
  /\ assignedAgentId = "a1"
  /\ secondTask = [status |-> "COMPLETED", assignedAgentId |-> "a1"]
  /\ offers = <<[agentId |-> "a1", price |-> 1, eta |-> 1,
                 score |-> computeOfferScore(1, 1, BASE_SCORE), status |-> "ACCEPTED"]>>
  /\ executions = <<[taskId |-> "t1", agentId |-> "a1", status |-> "SUCCESS"],
                    [taskId |-> "t2", agentId |-> "a1", status |-> "SUCCESS"]>>
  /\ payments = <<[taskId |-> "t1", agentId |-> "a1", amountLamports |-> TaskBudget,
                   status |-> "PENDING"],
                  [taskId |-> "t2", agentId |-> "a1", amountLamports |-> TaskBudget,
                   status |-> "PENDING"]>>
  /\ transfers = <<>>
  /\ reputationEvents = <<[taskId |-> "t1", agentId |-> "a1", deltaScore |-> SUCCESS_DELTA],
                          [taskId |-> "t2", agentId |-> "a1", deltaScore |-> SUCCESS_DELTA]>>
  /\ agents = [a \in Agents |->
                 IF a = "a1"
                   THEN [reputationScore |-> SummedScore(<<SUCCESS_DELTA, SUCCESS_DELTA>>),
                         totalTasksCompleted |-> 2, totalTasksFailed |-> 0,
                         isActive |-> AgentIsActive[a], capabilities |-> AgentCapabilities[a]]
                   ELSE [reputationScore |-> BASE_SCORE, totalTasksCompleted |-> 0,
                         totalTasksFailed |-> 0, isActive |-> AgentIsActive[a],
                         capabilities |-> AgentCapabilities[a]]]
  /\ activeAuctions = 0
  /\ timers = [t \in Timers |->
                 IF t = 1 THEN [UnusedTimer EXCEPT !.pc = "done", !.fetched = <<1>>]
                 ELSE UnusedTimer]
  /\ nextTimer = 1
  /\ calls = [c \in Callers |-> IdleCall]
  /\ faults = 0
  /\ guardCall = IdleGuardCall
  /\ offersLeft = MaxOffers - 1
  /\ overlapsLeft = MaxOverlaps

\* the settlements and the refunds of the Payments, an id that does not exist
\* included
SettleStep(c) ==
  \/ \E paymentId \in 1..3 : SettlePaymentRead(c, paymentId)
  \/ SettlePaymentSend(c) \/ SettlePaymentSendFault(c)
  \/ SettlePaymentUpdate(c) \/ SettlePaymentUpdateFault(c) \/ SettlePaymentMarkFailed(c)
  \/ \E paymentId \in 1..3 : RefundPaymentRead(c, paymentId)
  \/ RefundPaymentWrite(c)

NextSettle ==
  \/ \E c \in Callers : Acknowledge(c)
  \/ \E c \in Callers : SettleStep(c)

SpecSettle == InitSettle /\ [][NextSettle]_vars

\* the completions of the two Tasks
CompleteStep(c) ==
  \/ \E task \in Tasks, a \in Agents, success \in BOOLEAN, errorMessage \in ErrorMessages :
       CompleteExecutionRead(c, task, a, success, errorMessage)
  \/ CompleteExecutionFind(c) \/ CompleteExecutionUpdate(c) \/ CompleteExecutionTask(c)
  \/ CompleteExecutionPayment(c) \/ CompleteExecutionEvent(c)
  \/ CompleteExecutionScoreRead(c) \/ CompleteExecutionScoreWrite(c)
  \/ CompleteExecutionStatsAgent(c)
  \/ CompleteExecutionStatsExecutions(c) \/ CompleteExecutionStatsEvents(c)
  \/ CompleteExecutionStatsWrite(c)

NextAgent ==
  \/ \E c \in Callers : Acknowledge(c)
  \/ \E c \in Callers : CompleteStep(c)

SpecAgent == InitAgent /\ [][NextAgent]_vars

SpecAgentSerial == InitAgentSerial /\ [][NextAgent]_vars

\* the completions of the two Tasks, one at a time, with a Ledger whose
\* createPendingPayment may fail, and direct recomputations of the stats
NextLedger ==
  \/ \E c \in Callers : Acknowledge(c)
  \/ \E c \in Callers : CompleteStep(c)
  \/ \E c \in Callers : CompleteExecutionPaymentFault(c)
  \/ \E c \in Callers, a \in RatedAgents : RecomputeStatsBegin(c, a)

SpecLedger == InitAgentSerial /\ [][NextLedger]_vars

\* the whole life of the Task, one handler or callback at a time, store calls
\* of the window close failing or not; every Offer at the price of the budget
LifecycleStep(c) ==
  \/ StartAuctionBegin(c) \/ StartAuctionRead(c) \/ StartAuctionWrite(c) \/ StartAuctionArm(c)
  \/ CancelAuctionBegin(c) \/ CancelAuctionRead(c) \/ CancelAuctionWrite(c)
  \/ \E userId \in Users : CancelTaskRead(c, userId)
  \/ CancelTaskWrite(c) \/ CancelTaskRoute(c)
  \/ \E a \in Agents, eta \in Etas : SubmitOfferReadTask(c, a, TaskBudget, eta)
  \/ SubmitOfferReadAgent(c) \/ SubmitOfferFind(c) \/ SubmitOfferCreate(c)
  \/ \E a \in Agents : StartExecutionRead(c, a)
  \/ StartExecutionFind(c) \/ StartExecutionUpdate(c)
  \/ StartExecutionTask(c)
  \/ \E a \in Agents, success \in BOOLEAN :
       CompleteExecutionRead(c, "t1", a, success, NoMessage)
  \/ CompleteExecutionFind(c) \/ CompleteExecutionUpdate(c) \/ CompleteExecutionTask(c)
  \/ CompleteExecutionPayment(c) \/ CompleteExecutionEvent(c)
  \/ CompleteExecutionScoreRead(c) \/ CompleteExecutionScoreWrite(c)
  \/ CompleteExecutionStatsAgent(c)
  \/ CompleteExecutionStatsExecutions(c) \/ CompleteExecutionStatsEvents(c)
  \/ CompleteExecutionStatsWrite(c)

NextLifecycle ==
  \/ \E c \in Callers : Acknowledge(c)
  \/ \E c \in Callers : LifecycleStep(c)
  \/ \E t \in Timers : CloseStep(t)
  \/ \E t \in Timers : FaultStep(t)

SpecLifecycle == InitSerial /\ [][NextLifecycle]_vars

\* auctions with their offers and cancellations, no store call failing.
\* A request arrives when its caller sends it.
LiveBegin(c) ==
  \/ StartAuctionBegin(c) \/ CancelAuctionBegin(c)
  \/ \E userId \in Users : CancelTaskRead(c, userId)
  \/ \E a \in Agents, price \in Prices, eta \in Etas : SubmitOfferReadTask(c, a, price, eta)

\* a handler that has started resumes when the store call it awaits returns
LiveContinue(c) ==
  \/ StartAuctionRead(c) \/ StartAuctionWrite(c) \/ StartAuctionArm(c)
  \/ CancelAuctionRead(c) \/ CancelAuctionWrite(c)
  \/ CancelTaskWrite(c) \/ CancelTaskRoute(c)
  \/ SubmitOfferReadAgent(c) \/ SubmitOfferFind(c) \/ SubmitOfferCreate(c)

NextLive ==
  \/ \E c \in Callers : Acknowledge(c)
  \/ \E c \in Callers : LiveBegin(c)
  \/ \E c \in Callers : LiveContinue(c)
  \/ \E t \in Timers : CloseStep(t)

\* the event loop runs every due timer callback and every continuation whose
\* promise has settled, however many requests keep arriving; responses are
\* delivered
\* a request and a countdown may both start while a handler is suspended
InitLive == InitTask /\ overlapsLeft = MaxLiveOverlaps

SpecLive ==
  /\ InitLive
  /\ [][NextLive]_vars
  /\ \A c \in Callers : WF_vars(Acknowledge(c))
  /\ \A c \in Callers : SF_vars(LiveContinue(c))
  /\ \A t \in Timers : SF_vars(CloseStep(t))

\* reputation events applied to the agents and recomputations of their stats,
\* overlapping as the handlers of Spec do
ReputationStep(c) ==
  \/ \E a \in RatedAgents, delta \in EventDeltas : ApplyEventCreate(c, a, delta)
  \/ \E a \in RatedAgents : ApplyBonus(c, a)
  \/ \E a \in RatedAgents : ApplyPenalty(c, a)
  \/ ApplyEventScoreRead(c) \/ ApplyEventScoreWrite(c)
  \/ \E a \in RatedAgents : RecomputeStatsBegin(c, a)
  \/ CompleteExecutionStatsExecutions(c) \/ CompleteExecutionStatsEvents(c)
  \/ CompleteExecutionStatsWrite(c)

NextReputation ==
  \/ \E c \in Callers : Acknowledge(c)
  \/ \E c \in Callers : ReputationStep(c)

SpecReputation == Init /\ [][NextReputation]_vars

\* ------------------------------------------------------------------ claims
\* the nine edges of the StatusGuard table
StatusGuardTable ==
  {<<"OPEN", "IN_AUCTION">>, <<"OPEN", "CANCELLED">>,
   <<"IN_AUCTION", "ASSIGNED">>, <<"IN_AUCTION", "OPEN">>, <<"IN_AUCTION", "CANCELLED">>,
   <<"ASSIGNED", "RUNNING">>, <<"ASSIGNED", "CANCELLED">>,
   <<"RUNNING", "COMPLETED">>, <<"RUNNING", "FAILED">>}

\* C2: assertValidTransition(from, to) returns normally exactly for the nine
\* edges of the StatusGuard table and fails with ConflictError for every other
\* pair of statuses.
C2_AssertMatchesTable ==
  guardCall.fn = "assertValidTransition" =>
    /\ <<guardCall.from, guardCall.to>> \in StatusGuardTable => guardCall.outcome = "ok"
    /\ <<guardCall.from, guardCall.to>> \notin StatusGuardTable => guardCall.outcome = "ConflictError"

C2_Witness ==
  /\ guardCall.fn = "assertValidTransition"
  /\ guardCall.from = "IN_AUCTION" /\ guardCall.to = "OPEN"
  /\ guardCall.outcome = "ok"

\* C1: every change of the Task's persisted status goes from a status to one of
\* its legal successors in the StatusGuard table.
StatusChangeIsLegal ==
  (taskStatus' # taskStatus) => (<<taskStatus, taskStatus'>> \in StatusGuardTable)

C1_StatusChangesAreLegal == [][StatusChangeIsLegal]_vars

\* C3: the Task has an assignedAgentId if and only if its status is ASSIGNED,
\* RUNNING, COMPLETED or FAILED.
C3_AssignedIffAssignedOrLater ==
  (assignedAgentId # NoAgent) <=>
    (taskStatus \in {"ASSIGNED", "RUNNING", "COMPLETED", "FAILED"})

\* C4: there is at most one PENDING Offer per (Task, Agent) pair, also when two
\* submitOffer calls of the same Agent interleave.
C4_OnePendingOfferPerAgent ==
  \A a \in Agents : Cardinality({i \in PendingOfferIds : offers[i].agentId = a}) <= 1

\* the Offers the close found PENDING when the countdown fired
FetchedIds(t) == {timers[t].fetched[i] : i \in 1..Len(timers[t].fetched)}

\* the close returns, or throws and ends the process
CloseFinishes(t) ==
  timers[t].pc \notin {"done", "exited"} /\ timers'[t].pc \in {"done", "exited"}

\* C5: a window close that runs for a Task IN_AUCTION with at least one PENDING
\* Offer makes a highest-scored Offer ACCEPTED and every other PENDING Offer
\* REJECTED, sets the Task to ASSIGNED with the winner's agent, and creates
\* exactly one PENDING Execution for that agent.
C5_CloseAssignsHighestScore ==
  [][\A t \in Timers :
       (CloseFinishes(t) /\ ~timers'[t].storeFailed /\ FetchedIds(t) # {}) =>
         \E w \in FetchedIds(t) :
           /\ offers'[w].status = "ACCEPTED"
           /\ \A i \in FetchedIds(t) : offers'[i].score <= offers'[w].score
           /\ \A i \in FetchedIds(t) \ {w} : offers'[i].status = "REJECTED"
           /\ taskStatus' = "ASSIGNED"
           /\ assignedAgentId' = offers'[w].agentId
           /\ Len(executions') = 1
           /\ executions'[1] = [taskId |-> "t1", agentId |-> offers'[w].agentId,
                                 status |-> "PENDING"]]_vars

C5_Witness ==
  \E t \in Timers :
    /\ timers[t].pc = "done" /\ ~timers[t].storeFailed
    /\ taskStatus = "ASSIGNED"
    /\ \E w \in FetchedIds(t), l \in FetchedIds(t) :
         /\ offers[w].status = "ACCEPTED" /\ offers[l].status = "REJECTED"
         /\ offers[w].score > offers[l].score
         /\ offers[w].agentId = assignedAgentId
    /\ Len(executions) = 1 /\ executions[1].status = "PENDING"

\* C6: a submitOffer that arrives after the countdown has fired and before the
\* close has finished is rejected, so that once a close has finished with the
\* Task ASSIGNED the Task has no PENDING Offer.
C6_LateOfferIsRejected ==
  /\ \A c \in Callers :
       (calls[c].op = "submitOffer" /\ calls[c].late /\ calls[c].pc = "returned") =>
         calls[c].result # "ok"
  /\ \A t \in Timers :
       (timers[t].pc = "done" /\ ~timers[t].storeFailed /\ taskStatus = "ASSIGNED" /\ ~Busy) =>
         PendingOfferIds = {}

\* C7: when no handler is running, the Task has at most one ACCEPTED Offer, and
\* a Task that has one is neither OPEN nor IN_AUCTION; this holds also after a
\* window close that failed part-way (and whose catch block ran undisturbed).
AcceptedOfferIds == {i \in 1..Len(offers) : offers[i].status = "ACCEPTED"}

C7_AcceptedOnlyWhenAssigned ==
  (~Busy /\ \A t \in Timers : ~timers[t].catchFailed) =>
    /\ Cardinality(AcceptedOfferIds) <= 1
    /\ AcceptedOfferIds # {} => taskStatus \notin {"OPEN", "IN_AUCTION"}

\* C8: when a store call of window close has failed (and the store calls of
\* the catch block have not), the Task is OPEN and the auction state is
\* discarded once the close handler has finished.
C8_FailedCloseResetsToOpen ==
  [][\A t \in Timers :
       (CloseFinishes(t) /\ timers'[t].storeFailed /\ ~timers'[t].catchFailed) =>
         (taskStatus' = "OPEN" /\ activeAuctions' = 0)]_vars

\* C9: once the Task is COMPLETED, FAILED or CANCELLED its status never changes.
C9_TerminalStatusIsFinal ==
  [][(taskStatus \in {"COMPLETED", "FAILED", "CANCELLED"}) => (taskStatus' = taskStatus)]_vars

\* C10: the completion of the Task is applied once: there is at most one
\* payment and at most one ReputationEvent for it.
C10_CompletionAppliedOnce ==
  Len(payments) <= 1 /\ Len(reputationEvents) <= 1

\* C11: a completeExecution called by the assigned agent for a Task that an
\* earlier completeExecution has already made COMPLETED or FAILED fails with
\* ConflictError and changes nothing in the store.
C11_SecondCompleteIsRefused ==
  [][\A c \in Callers :
       (/\ calls[c].pc = "idle"
        /\ calls'[c].op = "completeExecution"
        /\ calls'[c].agentId = TaskRow(calls'[c].taskId).assignedAgentId
        /\ TaskRow(calls'[c].taskId).status \in {"COMPLETED", "FAILED"}) =>
         (/\ calls'[c].pc = "returned"
          /\ calls'[c].result = "ConflictError"
          /\ UNCHANGED storeVars)]_vars

C11_Witness ==
  \E c \in Callers :
    /\ calls[c].op = "completeExecution" /\ calls[c].pc = "returned"
    /\ calls[c].result = "ConflictError"
    /\ calls[c].agentId = assignedAgentId
    /\ taskStatus \in {"COMPLETED", "FAILED"}
    /\ Len(reputationEvents) = 1
    /\ \A d \in Callers \ {c} : calls[d].pc = "idle"

\* C12: each Task has at most one Execution whose status is PENDING or RUNNING.
C12_OneLiveExecutionPerTask ==
  \A task \in Tasks :
    Cardinality({i \in 1..Len(executions) :
                   /\ executions[i].taskId = task
                   /\ executions[i].status \in {"PENDING", "RUNNING"}}) <= 1

\* C13: after a completeExecution call has returned, the Agent's persisted
\* reputationScore is the decayed-weight projection of its ReputationEvent
\* history (the 100 newest events, newest first), rounded to 2 decimals.
C13_ScoreIsDecayedProjection ==
  \A c \in Callers :
    (calls[c].op = "completeExecution" /\ calls[c].pc = "returned" /\ calls[c].result = "ok") =>
      agents[calls[c].agentId].reputationScore = DecayedScore(RecentDeltas(calls[c].agentId))

\* C14: once all concurrent completions for the same Agent, each on a
\* different Task, have finished, no
\* event is lost: the persisted reputationScore is a recomputation over the
\* Agent's complete ReputationEvent history (by either recomputation of the
\* code: the decayed projection or the plain sum of recomputeStats).
EachTaskCompletedOnce ==
  \A task \in Tasks :
    Cardinality({i \in 1..Len(reputationEvents) : reputationEvents[i].taskId = task}) <= 1

C14_NoEventLost ==
  (~Busy /\ EachTaskCompletedOnce) =>
    \A a \in Agents :
      agents[a].reputationScore \in
        {DecayedScore(RecentDeltas(a)), SummedScore(RecentDeltas(a))}

\* C15: once all concurrent completions for the same Agent, each on a
\* different Task, have finished, the
\* Agent's totalTasksCompleted is the number of its SUCCESS Executions and
\* totalTasksFailed the number of its FAILURE Executions.
C15_CountersMatchExecutions ==
  (~Busy /\ EachTaskCompletedOnce) =>
    \A a \in Agents :
      /\ agents[a].totalTasksCompleted = Cardinality(ExecutionIds(a, "SUCCESS"))
      /\ agents[a].totalTasksFailed = Cardinality(ExecutionIds(a, "FAILURE"))

\* C16: a submitOffer for a Task whose status does not satisfy canAcceptOffers
\* is rejected with AuctionError, and no Offer is persisted.
C16_ClosedTaskGivesAuctionError ==
  [][\A c \in Callers :
       (/\ calls[c].pc = "idle"
        /\ calls'[c].op = "submitOffer"
        /\ ~canAcceptOffers(taskStatus)) =>
         (/\ calls'[c].pc = "returned"
          /\ calls'[c].result = "AuctionError"
          /\ offers' = offers)]_vars

\* C17: a submitOffer by an Agent that already holds a PENDING Offer for the
\* Task is rejected with ConflictError, and the set of Offers is unchanged.
C17_DuplicateGivesConflictError ==
  [][\A c \in Callers :
       (/\ calls[c].pc = "soFind"
        /\ calls'[c].pc # "soFind"
        /\ \E i \in PendingOfferIds : offers[i].agentId = calls[c].agentId) =>
         (/\ calls'[c].pc = "returned"
          /\ calls'[c].result = "ConflictError"
          /\ offers' = offers)]_vars

\* The Task after a window close that failed past rejectOffersExcept: a1's
\* Offer was accepted, a2's rejected, assignTask threw and the catch block set
\* the Task back to OPEN.
InitReopened ==
  /\ taskStatus = "OPEN"
  /\ assignedAgentId = NoAgent
  /\ secondTask = NoTask
  /\ offers = <<[agentId |-> "a1", price |-> 1, eta |-> 1,
                 score |-> computeOfferScore(1, 1, BASE_SCORE), status |-> "ACCEPTED"],
                [agentId |-> "a2", price |-> 2, eta |-> 1,
                 score |-> computeOfferScore(2, 1, BASE_SCORE), status |-> "REJECTED"]>>
  /\ executions = <<>>
  /\ payments = <<>>
  /\ transfers = <<>>
  /\ reputationEvents = <<>>
  /\ agents = [a \in Agents |->
                 [reputationScore |-> BASE_SCORE, totalTasksCompleted |-> 0,
                  totalTasksFailed |-> 0, isActive |-> AgentIsActive[a],
                  capabilities |-> AgentCapabilities[a]]]
  /\ activeAuctions = 0
  /\ timers = [t \in Timers |->
                 IF t = 1 THEN [UnusedTimer EXCEPT !.pc = "done", !.fetched = <<1, 2>>,
                                                   !.storeFailed = TRUE]
                 ELSE UnusedTimer]
  /\ nextTimer = 1
  /\ calls = [c \in Callers |-> IdleCall]
  /\ faults = 1
  /\ guardCall = IdleGuardCall
  /\ overlapsLeft = 0
  /\ offersLeft = MaxResubmits

\* further offers and windows on the reopened Task and changes of the
\* Agents, one handler at a time and with no further store fault
OfferStep(c) ==
  \/ StartAuctionBegin(c) \/ StartAuctionRead(c) \/ StartAuctionWrite(c) \/ StartAuctionArm(c)
  \/ \E a \in Agents, price \in Prices, eta \in Etas : SubmitOfferReadTask(c, a, price, eta)
  \/ SubmitOfferReadAgent(c) \/ SubmitOfferFind(c) \/ SubmitOfferCreate(c)

\* the owner, or another user, changes Agent a2: activates or deactivates
\* it, replaces its capabilities, or both
ProfileStep(c) ==
  \/ \E userId \in Users, a \in {"a2"},
        isActive \in {<<>>, <<TRUE>>, <<FALSE>>},
        capabilities \in {<<>>, <<{"storage"}>>, <<{"compute", "storage"}>>} :
       UpdateAgentRoute(c, userId, a, isActive, capabilities)
  \/ UpdateAgentRead(c) \/ UpdateAgentWrite(c)

WindowStep(t) ==
  \/ TimerFire(t) \/ CloseFetch(t)
  \/ CloseNoOffersRead(t) \/ CloseNoOffersWrite(t) \/ CloseNoOffersDelete(t)
  \/ CloseAccept(t) \/ CloseReject(t) \/ CloseAssignRead(t) \/ CloseAssignWrite(t)
  \/ CloseCreateExecution(t) \/ CloseFinally(t)

NextReopened ==
  \/ \E c \in Callers : Acknowledge(c)
  \/ \E c \in Callers : OfferStep(c)
  \/ \E c \in Callers : ProfileStep(c)
  \/ \E t \in Timers : WindowStep(t)

SpecReopened == InitReopened /\ [][NextReopened]_vars

\* the same handlers on a new Task: offers, windows and changes of the Agents,
\* one handler at a time
SpecEligibility == InitSerial /\ [][NextReopened]_vars

\* an auction with its offers, their cancellations by the agents and the
\* window close, overlapping
WithdrawStep(c) ==
  \/ OfferStep(c)
  \/ \E offerId \in 1..MaxOffers, a \in Agents : CancelOfferRead(c, offerId, a)
  \/ CancelOfferWrite(c)

NextWithdraw ==
  \/ \E c \in Callers : Acknowledge(c)
  \/ \E c \in Callers : WithdrawStep(c)
  \/ \E t \in Timers : WindowStep(t)

SpecWithdraw == Init /\ [][NextWithdraw]_vars

\* auctions started, offered on, cancelled and closed one after the other,
\* and the remaining time asked for at any point
RemainingStep(c) ==
  \/ StartAuctionBegin(c) \/ StartAuctionRead(c) \/ StartAuctionWrite(c) \/ StartAuctionArm(c)
  \/ CancelAuctionBegin(c) \/ CancelAuctionRead(c) \/ CancelAuctionWrite(c)
  \/ \E a \in Agents, price \in Prices, eta \in Etas : SubmitOfferReadTask(c, a, price, eta)
  \/ SubmitOfferReadAgent(c) \/ SubmitOfferFind(c) \/ SubmitOfferCreate(c)
  \/ \E elapsed \in ElapsedTimes : GetTimeRemainingCall(c, elapsed)

NextRemaining ==
  \/ \E c \in Callers : Acknowledge(c)
  \/ \E c \in Callers : RemainingStep(c)
  \/ \E t \in Timers : WindowStep(t)

SpecRemaining == InitSerial /\ [][NextRemaining]_vars

HasRejectedOffer(a) ==
  \E i \in 1..Len(offers) : offers[i].agentId = a /\ offers[i].status = "REJECTED"

HoldsPendingOffer(a) == \E i \in PendingOfferIds : offers[i].agentId = a

\* the Agent row as it is now passes createOffer's Agent check
EligibleAgent(a) == agents[a].isActive /\ RequiredCapabilities \subseteq agents[a].capabilities

ValidSubmission(call) ==
  /\ EligibleAgent(call.agentId)
  /\ call.price <= TaskBudget

\* a submitOffer starts for an Agent whose earlier Offer is REJECTED and that
\* holds no PENDING Offer, with a valid price
BeginsResubmit(c) ==
  /\ calls[c].pc = "idle"
  /\ calls'[c].op = "submitOffer"
  /\ HasRejectedOffer(calls'[c].agentId)
  /\ ~HoldsPendingOffer(calls'[c].agentId)
  /\ ValidSubmission(calls'[c])

\* such a submitOffer, once past the Task check, goes through the Agent check
\* and the pending-offer check and persists a new PENDING Offer
ResubmitGoesThrough(c) ==
  (/\ calls[c].op = "submitOffer"
   /\ calls[c].pc \in {"soAgent", "soFind", "soCreate"}
   /\ calls'[c] # calls[c]
   /\ HasRejectedOffer(calls[c].agentId)
   /\ ~HoldsPendingOffer(calls[c].agentId)
   /\ ValidSubmission(calls[c])) =>
     CASE calls[c].pc = "soAgent" -> calls'[c].pc = "soFind"
       [] calls[c].pc = "soFind" -> calls'[c].pc = "soCreate"
       [] calls[c].pc = "soCreate" ->
            /\ calls'[c].pc = "returned"
            /\ calls'[c].result = "ok"
            /\ Len(offers') = Len(offers) + 1
            /\ offers'[Len(offers')].agentId = calls[c].agentId
            /\ offers'[Len(offers')].status = "PENDING"
            /\ \A i \in 1..Len(offers) : offers'[i] = offers[i]

ResubmitOfChangedAgentIsRefused(c) ==
  (/\ calls[c].op = "submitOffer"
   /\ calls[c].pc = "soAgent"
   /\ calls'[c] # calls[c]
   /\ HasRejectedOffer(calls[c].agentId)
   /\ ~EligibleAgent(calls[c].agentId)) =>
     (/\ calls'[c].pc = "returned"
      /\ calls'[c].result = "ValidationError"
      /\ offers' = offers)

OffersValidAtSubmission ==
  /\ Len(offers') >= Len(offers)
  /\ \A i \in 1..Len(offers') : offers'[i].price <= TaskBudget
  /\ \A i \in 1..Len(offers) :
       offers'[i].agentId = offers[i].agentId /\ offers'[i].price = offers[i].price
  /\ \A i \in (Len(offers) + 1)..Len(offers') : EligibleAgent(offers'[i].agentId)

\* the step of createOffer that reads the Agent, for an inactive Agent or one
\* lacking a required capability, throws ValidationError
IneligibleAgentIsRefused(c) ==
  (/\ calls[c].op = "submitOffer"
   /\ calls[c].pc = "soAgent"
   /\ calls'[c] # calls[c]
   /\ ~EligibleAgent(calls[c].agentId)) =>
     (/\ calls'[c].pc = "returned"
      /\ calls'[c].result = "ValidationError"
      /\ offers' = offers)

\* C19 as stated: submitOffer is rejected with ValidationError and persists
\* no Offer whenever the Agent is inactive, lacks a required capability or
\* the price exceeds the budget; every persisted Offer is within budget and
\* from an Agent that was active with all required capabilities at submission.
C19_InvalidOfferGivesValidationError ==
  [][/\ \A c \in Callers :
          /\ (/\ calls[c].pc = "idle"
              /\ calls'[c].op = "submitOffer"
              /\ ~EligibleAgent(calls'[c].agentId)
              /\ calls'[c].pc = "returned") =>
                (calls'[c].result = "ValidationError" /\ offers' = offers)
          /\ IneligibleAgentIsRefused(c)
          /\ (/\ calls[c].op = "submitOffer"
              /\ calls[c].pc = "soFind"
              /\ calls'[c] # calls[c]
              /\ calls[c].price > TaskBudget) =>
                (/\ calls'[c].pc = "returned"
                 /\ calls'[c].result = "ValidationError"
                 /\ offers' = offers)
     /\ OffersValidAtSubmission]_vars

\* C19 amended: such a submitOffer is always rejected and persists no Offer;
\* the error is ValidationError unless an earlier check of createOffer
\* rejects first: the Task's status (for all three cases) or, for the price,
\* a PENDING Offer the Agent already holds.
C19_InvalidOfferIsRefusedInCheckOrder ==
  [][/\ \A c \in Callers :
          /\ (/\ calls[c].pc = "idle"
              /\ calls'[c].op = "submitOffer"
              /\ ~EligibleAgent(calls'[c].agentId)) =>
                IF taskStatus \in {"OPEN", "IN_AUCTION"}
                  THEN calls'[c].pc = "soAgent" /\ offers' = offers
                  ELSE /\ calls'[c].pc = "returned"
                       /\ calls'[c].result \notin {"ok", "ValidationError"}
                       /\ offers' = offers
          /\ IneligibleAgentIsRefused(c)
          /\ (/\ calls[c].op = "submitOffer"
              /\ calls[c].pc = "soFind"
              /\ calls'[c] # calls[c]
              /\ calls[c].price > TaskBudget) =>
                (/\ calls'[c].pc = "returned"
                 /\ offers' = offers
                 /\ IF HoldsPendingOffer(calls[c].agentId)
                      THEN calls'[c].result \notin {"ok", "ValidationError"}
                      ELSE calls'[c].result = "ValidationError")
     /\ OffersValidAtSubmission]_vars

\* an active Agent lacking the capability has been refused with
\* ValidationError while a PENDING Offer is held by an Agent deactivated since
C19_Witness ==
  \E c \in Callers :
    /\ calls[c].pc = "returned"
    /\ calls[c].op = "submitOffer"
    /\ calls[c].result = "ValidationError"
    /\ agents[calls[c].agentId].isActive
    /\ ~(RequiredCapabilities \subseteq agents[calls[c].agentId].capabilities)
    /\ taskStatus = "IN_AUCTION"
    /\ \E i \in 1..Len(offers) :
         offers[i].status = "PENDING" /\ ~agents[offers[i].agentId].isActive

NoOffersBranch == {"clNoRead", "clNoWrite", "clNoDelete"}

\* C20: when the countdown fires for a Task that is IN_AUCTION with no PENDING
\* Offer (and no store call fails), the close sets the Task to OPEN, changes
\* no Offer, creates no Execution, and discards the Task's auction entry, so
\* that a later startAuction is not taken for a duplicate.
C20_EmptyWindowReopensTask ==
  [][\A t \in Timers :
       /\ (/\ timers[t].pc = "clFetch"
           /\ timers'[t] # timers[t]
           /\ ~timers'[t].storeFailed
           /\ taskStatus = "IN_AUCTION"
           /\ PendingOfferIds = {}) =>
             (timers'[t].pc = "clNoRead" /\ UNCHANGED storeVars)
       /\ (/\ timers[t].pc \in NoOffersBranch
           /\ timers'[t] # timers[t]
           /\ ~timers'[t].storeFailed) =>
             /\ offers' = offers
             /\ executions' = executions
             /\ assignedAgentId' = assignedAgentId
             /\ timers'[t].pc \in NoOffersBranch \cup {"done"}
             /\ timers'[t].pc = "done" => (taskStatus' = "OPEN" /\ activeAuctions' = 0)]_vars

\* a second window has been opened after the first closed with no Offer
C20_Witness ==
  /\ timers[1].pc = "done"
  /\ timers[1].fetched = <<>>
  /\ ~timers[1].storeFailed
  /\ offers = <<>>
  /\ executions = <<>>
  /\ timers[2].pc = "armed"
  /\ activeAuctions = 2
  /\ taskStatus = "IN_AUCTION"

PaymentsOf(task) == {i \in 1..Len(payments) : payments[i].taskId = task}

EventsOf(task) == {i \in 1..Len(reputationEvents) : reputationEvents[i].taskId = task}

\* C21: a completeExecution that succeeds on a RUNNING Task has, when it
\* returns, exactly these effects: on success the Execution is SUCCESS, the
\* Task COMPLETED, one PENDING payment of the Task's budget for the assigned
\* agent exists and one ReputationEvent of +0.1; on failure the Execution is
\* FAILURE, the Task FAILED, one ReputationEvent of -0.2 and no payment.
C21_CompletionEffects ==
  [][\A c \in Callers :
       (/\ calls[c].op = "completeExecution"
        /\ calls[c].pc = "ceStatsWrite"
        /\ calls'[c].pc = "returned") =>
          LET task == calls[c].taskId
              a == calls[c].agentId
              ok == calls[c].success
          IN /\ calls'[c].result = "ok"
             /\ a = TaskRow(task).assignedAgentId
             /\ executions'[calls[c].found].status = IF ok THEN "SUCCESS" ELSE "FAILURE"
             /\ TaskExecutionIds(task, a, "RUNNING") = {}
             /\ TaskRow(task).status' = IF ok THEN "COMPLETED" ELSE "FAILED"
             /\ Cardinality(EventsOf(task)) = 1
             /\ \A i \in EventsOf(task) :
                  /\ reputationEvents[i].agentId = a
                  /\ reputationEvents[i].deltaScore = IF ok THEN 10 ELSE -20
             /\ Cardinality(PaymentsOf(task)) = IF ok THEN 1 ELSE 0
             /\ \A i \in PaymentsOf(task) :
                  payments[i] = [taskId |-> task, agentId |-> a,
                                 amountLamports |-> TaskBudget, status |-> "PENDING"]
             /\ payments' = payments
             /\ reputationEvents' = reputationEvents]_vars

C21_Witness ==
  \E c \in Callers :
    /\ calls[c].pc = "returned"
    /\ calls[c].op = "completeExecution"
    /\ calls[c].result = "ok"
    /\ taskStatus = "COMPLETED"
    /\ Len(payments) = 1
    /\ Len(reputationEvents) = 1
    /\ reputationEvents[1].deltaScore = 10
    /\ \E i \in 1..Len(executions) : executions[i].status = "SUCCESS"

\* C22: when createPendingPayment fails during a successful completeExecution,
\* the Task stays COMPLETED and the Execution SUCCESS, and the positive
\* ReputationEvent is still applied and the aggregate counters recomputed.
C22_LedgerFailureKeepsOutcome ==
  \A c \in Callers :
    (/\ calls[c].pc = "returned"
     /\ calls[c].op = "completeExecution"
     /\ calls[c].result = "InternalError") =>
       /\ TaskRow(calls[c].taskId).status = "COMPLETED"
       /\ TaskExecutionIds(calls[c].taskId, calls[c].agentId, "SUCCESS") # {}
       /\ \E i \in EventsOf(calls[c].taskId) : reputationEvents[i].deltaScore = 10
       /\ agents[calls[c].agentId].totalTasksCompleted
            = Cardinality(ExecutionIds(calls[c].agentId, "SUCCESS"))

\* C23: startExecution by an agent that is not the Task's assignedAgentId
\* fails with ValidationError; by the assigned agent on a Task that is not
\* ASSIGNED (already RUNNING, or terminal) it fails with ConflictError; in
\* both cases no Execution is created or changed and the Task is unchanged.
C23_StartExecutionPreconditions ==
  [][\A c \in Callers :
       (calls[c].pc = "idle" /\ calls'[c].op = "startExecution") =>
         /\ (calls'[c].agentId # assignedAgentId) =>
               (/\ calls'[c].pc = "returned"
                /\ calls'[c].result = "ValidationError"
                /\ UNCHANGED storeVars)
         /\ (calls'[c].agentId = assignedAgentId /\ taskStatus # "ASSIGNED") =>
               (/\ calls'[c].pc = "returned"
                /\ calls'[c].result = "ConflictError"
                /\ UNCHANGED storeVars)]_vars

\* a repeated startExecution on the RUNNING Task has been refused
C23_Witness ==
  \E c \in Callers :
    /\ calls[c].pc = "returned"
    /\ calls[c].op = "startExecution"
    /\ calls[c].result = "ConflictError"
    /\ calls[c].agentId = assignedAgentId
    /\ taskStatus = "RUNNING"
    /\ Cardinality(TaskExecutionIds("t1", assignedAgentId, "RUNNING")) = 1
    /\ Len(executions) = 1

\* C24: a completeExecution with an unsuccessful outcome and no error message,
\* on a RUNNING Task by its assigned agent, is rejected with ValidationError
\* and changes nothing.
C24_FailureNeedsErrorMessage ==
  [][\A c \in Callers :
       (/\ calls[c].pc = "idle"
        /\ calls'[c].op = "completeExecution"
        /\ TaskRow(calls'[c].taskId).status = "RUNNING"
        /\ TaskRow(calls'[c].taskId).assignedAgentId = calls'[c].agentId
        /\ ~calls'[c].success
        /\ calls'[c].errorMessage = NoMessage) =>
          (/\ calls'[c].pc = "returned"
           /\ calls'[c].result = "ValidationError"
           /\ UNCHANGED storeVars)]_vars

\* C25: a cancelAuction on a Task with an active auction cancels the countdown
\* so that window close does not run for that auction (also when the close
\* is already in progress), removes the auction entry, and returns leaving
\* the Task OPEN.
C25_CancelStopsTheWindow ==
  [][\A c \in Callers :
       /\ (/\ calls[c].pc = "idle"
           /\ calls'[c].op = "cancelAuction"
           /\ activeAuctions # 0) =>
             (/\ activeAuctions' = 0
              /\ timers'[activeAuctions].pc \in {"cleared", "done"})
       /\ (/\ calls[c].op = "cancelAuction"
           /\ calls[c].pc \in {"caRead", "caWrite"}
           /\ calls'[c].pc = "returned") =>
             (calls'[c].result = "ok" /\ taskStatus' = "OPEN")]_vars

\* C26: cancelAuction for a Task with no active auction (in particular a
\* second call right after a first) raises no error and changes neither the
\* in-memory auction state nor the Task's persisted status.
C26_CancelWithoutAuctionIsNoOp ==
  [][\A c \in Callers :
       (/\ calls[c].pc = "idle"
        /\ calls'[c].op = "cancelAuction"
        /\ activeAuctions = 0) =>
          (/\ calls'[c].pc = "returned"
           /\ calls'[c].result = "ok"
           /\ UNCHANGED storeVars
           /\ UNCHANGED engineVars)]_vars

\* a cancelAuction has returned on a Task that has no auction any more and
\* was assigned by the finished close
C26_Witness ==
  \E c \in Callers :
    /\ calls[c].pc = "returned"
    /\ calls[c].op = "cancelAuction"
    /\ calls[c].result = "ok"
    /\ activeAuctions = 0
    /\ taskStatus = "ASSIGNED"
    /\ timers[1].pc = "done"

\* C27: startAuction for a Task that already has an active auction is a
\* no-op: it returns without error, schedules no second countdown, and leaves
\* the auction entry (with its start time) and the Task's status unchanged.
C27_StartOnActiveAuctionIsNoOp ==
  [][\A c \in Callers :
       (/\ calls[c].pc = "idle"
        /\ calls'[c].op = "startAuction"
        /\ activeAuctions # 0) =>
          (/\ calls'[c].pc = "returned"
           /\ calls'[c].result = "ok"
           /\ UNCHANGED storeVars
           /\ UNCHANGED engineVars)]_vars

\* a startAuction has returned having found the first auction active
C27_Witness ==
  \E c \in Callers :
    /\ calls[c].pc = "returned"
    /\ calls[c].op = "startAuction"
    /\ calls[c].result = "ok"
    /\ calls[c].found = 1
    /\ activeAuctions = 1
    /\ timers[1].pc = "armed"
    /\ nextTimer = 1
    /\ taskStatus = "IN_AUCTION"

CountdownPending == activeAuctions # 0 /\ timers[activeAuctions].pc = "armed"

\* C28: whenever no operation on the Task is in progress (and no store call
\* has failed), the Task's status is IN_AUCTION if and only if a countdown is
\* pending for the Task in the auction map.
C28_MapAgreesWithStatus ==
  (~Busy /\ faults = 0) => (taskStatus = "IN_AUCTION" <=> CountdownPending)

\* the Offers the store may return first to a close that fetches now
PossibleWinners == {ids[1] : ids \in {x \in getPendingOffersForTask : Len(x) > 0}}

\* C29: when PENDING Offers share the highest score at window close, the
\* winner depends only on the Offers: whichever order the store returns
\* equal-score rows in, the close accepts the same Offer.
C29_WinnerIsDetermined ==
  \A t \in Timers :
    timers[t].pc = "clFetch" => Cardinality(PossibleWinners) <= 1

\* C30: the score of an Offer is computed when the Offer is created, from the
\* Agent's reputation at that moment, and no operation changes it afterwards
\* (nor the price, ETA or Agent it was computed from), whatever happens to
\* the Agent's reputationScore.
C30_OfferScoreIsFrozen ==
  [][/\ Len(offers') >= Len(offers)
     /\ \A i \in 1..Len(offers) :
          /\ offers'[i].score = offers[i].score
          /\ offers'[i].price = offers[i].price
          /\ offers'[i].eta = offers[i].eta
          /\ offers'[i].agentId = offers[i].agentId
     /\ \A i \in (Len(offers) + 1)..Len(offers') :
          offers'[i].score = computeOfferScore(offers'[i].price, offers'[i].eta,
                                               agents[offers'[i].agentId].reputationScore)]_vars

\* the winner's reputation has changed since its Offer was scored
C30_Witness ==
  \E i \in 1..Len(offers) :
    /\ offers[i].score = computeOfferScore(offers[i].price, offers[i].eta, BASE_SCORE)
    /\ offers[i].status = "ACCEPTED"
    /\ agents[offers[i].agentId].reputationScore # BASE_SCORE
    /\ Len(reputationEvents) = 1
    /\ Len(offers) = 2
    /\ ~Busy

\* C31: in every reachable state each Agent's persisted reputationScore lies
\* in [0.0, 5.0], whatever events have been applied and whichever
\* recomputation wrote it last.
C31_ScoreStaysInRange ==
  \A a \in Agents : agents[a].reputationScore >= 0 /\ agents[a].reputationScore <= 500

\* recomputeStats has written 0.0 for an agent whose plain sum is below zero
C31_Witness ==
  \E a \in RatedAgents :
    /\ agents[a].reputationScore = 0
    /\ SummedScore_Unclamped(RecentDeltas(a)) < 0
    /\ \E c \in Callers : /\ calls[c].pc = "returned"
                           /\ calls[c].op = "recomputeStats"
                           /\ calls[c].agentId = a

\* a computeOfferScore call has returned its score
ScoreReturned(c) == calls[c].pc = "returned" /\ calls[c].op = "computeOfferScore"

\* twice the unrounded score in millionths
UnroundedTwice(price, eta, reputation) ==
  200000000 - 2 * LnMicro[price + 1] - LnMicro[eta + 1] + 2 * reputation * 10000

\* C32 as stated: computeOfferScore, rounded to 3 decimals, strictly decreases
\* when the price increases, strictly decreases when etaSeconds increases and
\* strictly increases when the reputation increases, the other two arguments
\* being fixed.
C32_StrictlyMonotone ==
  \A c \in Callers : ScoreReturned(c) =>
    /\ \A p \in ScoreArguments : p > calls[c].price =>
          computeOfferScore(p, calls[c].eta, calls[c].rep) < calls[c].n1
    /\ \A e \in ScoreArguments : e > calls[c].eta =>
          computeOfferScore(calls[c].price, e, calls[c].rep) < calls[c].n1
    /\ \A r \in Reputations : r > calls[c].rep =>
          computeOfferScore(calls[c].price, calls[c].eta, r) > calls[c].n1

\* C32 amended: the rounded score never increases when the price or
\* etaSeconds increases and never decreases when the reputation increases; it
\* changes strictly whenever the unrounded scores differ by at least 0.001.
C32_MonotoneUpToRounding ==
  \A c \in Callers : ScoreReturned(c) =>
    LET own == UnroundedTwice(calls[c].price, calls[c].eta, calls[c].rep)
    IN /\ \A p \in ScoreArguments : p > calls[c].price =>
            LET other == computeOfferScore(p, calls[c].eta, calls[c].rep)
            IN /\ other <= calls[c].n1
               /\ own - UnroundedTwice(p, calls[c].eta, calls[c].rep) >= 2000
                    => other < calls[c].n1
       /\ \A e \in ScoreArguments : e > calls[c].eta =>
            LET other == computeOfferScore(calls[c].price, e, calls[c].rep)
            IN /\ other <= calls[c].n1
               /\ own - UnroundedTwice(calls[c].price, e, calls[c].rep) >= 2000
                    => other < calls[c].n1
       /\ \A r \in Reputations : r > calls[c].rep =>
            LET other == computeOfferScore(calls[c].price, calls[c].eta, r)
            IN /\ other >= calls[c].n1
               /\ UnroundedTwice(calls[c].price, calls[c].eta, r) - own >= 2000
                    => other > calls[c].n1

\* the score of a price of 1000000 has been returned: the next price has the
\* same rounded score, a smaller price a strictly higher one
C32_Witness ==
  \E c \in Callers :
    /\ ScoreReturned(c)
    /\ calls[c].price = 1000000
    /\ computeOfferScore(1000001, calls[c].eta, calls[c].rep) = calls[c].n1
    /\ computeOfferScore(3, calls[c].eta, calls[c].rep) > calls[c].n1

\* a getTimeRemaining call has returned
RemainingReturned(c) == calls[c].pc = "returned" /\ calls[c].op = "getTimeRemaining"

\* C33: getTimeRemaining returns null exactly when the engine holds no active
\* auction for the Task, and otherwise max(0, window - elapsed); it never
\* returns a negative number, also while a window close is in progress.
C33_TimeRemaining ==
  \A c \in Callers : RemainingReturned(c) =>
    /\ calls[c].result = "null" <=> activeAuctions = 0
    /\ calls[c].result # "null" =>
         /\ calls[c].result = "number"
         /\ calls[c].n2 >= 0
         /\ calls[c].n2 >= 15000 - calls[c].n1
         /\ calls[c].n2 = 0 \/ calls[c].n2 = 15000 - calls[c].n1

\* the call was made after the window, while the close is in progress, and
\* returned 0
C33_Witness ==
  \E c \in Callers :
    /\ RemainingReturned(c)
    /\ Closing
    /\ calls[c].n1 > 15000
    /\ calls[c].result = "number"
    /\ calls[c].n2 = 0

\* the predicate fn has been called on the status guardCall.from
PredicateSaid(fn) == guardCall.fn = fn /\ guardCall.outcome = "true"

\* C34: each status predicate agrees with the transition table:
\* canBeCancelled(s) iff CANCELLED is a legal successor of s,
\* canStartExecution(s) iff RUNNING is, canComplete(s) iff COMPLETED and
\* FAILED are, isTerminal(s) iff s has no legal successor, and
\* canAcceptOffers(s) iff s is OPEN or IN_AUCTION.
C34_PredicatesAgreeWithTable ==
  LET s == guardCall.from
      legal(to) == to \in VALID_TRANSITIONS[s]
  IN /\ guardCall.fn = "canBeCancelled" => (PredicateSaid("canBeCancelled") <=> legal("CANCELLED"))
     /\ guardCall.fn = "canStartExecution" =>
          (PredicateSaid("canStartExecution") <=> legal("RUNNING"))
     /\ guardCall.fn = "canComplete" =>
          (PredicateSaid("canComplete") <=> (legal("COMPLETED") /\ legal("FAILED")))
     /\ guardCall.fn = "isTerminal" =>
          (PredicateSaid("isTerminal") <=> VALID_TRANSITIONS[s] = {})
     /\ guardCall.fn = "canAcceptOffers" =>
          (PredicateSaid("canAcceptOffers") <=> s \in {"OPEN", "IN_AUCTION"})

\* canBeCancelled has answered true for an ASSIGNED Task
C34_Witness ==
  /\ PredicateSaid("canBeCancelled")
  /\ guardCall.from = "ASSIGNED"

\* the countdowns that are pending or whose close is running
LiveCountdowns ==
  {t \in Timers : timers[t].pc \notin {"unused", "cleared", "done", "exited", "lost"}}

\* C35: at most one countdown is pending for the Task and at most one window
\* close is running for it, also when startAuction calls overlap; one auction
\* never gets two closes, two winner selections or two Executions.
C35_OneCountdownPerTask == Cardinality(LiveCountdowns) <= 1

\* C36: every active auction is eventually resolved, the countdown firing and
\* the store calls returning: the engine's entry for the Task is removed and
\* the Task is no longer IN_AUCTION.
C36_AuctionIsResolved ==
  (activeAuctions # 0) ~> (activeAuctions = 0 /\ taskStatus # "IN_AUCTION")

\* C37: startAuction for a Task that has no in-memory auction and whose
\* persisted status is not OPEN fails with ConflictError and has no effect: no
\* countdown is scheduled, no auction state recorded, the status unchanged.
C37_StartOnNonOpenTaskIsRefused ==
  [][\A c \in Callers :
       /\ (calls[c].pc = "idle" /\ calls'[c].op = "startAuction" /\ activeAuctions = 0)
            => (calls'[c].pc = "saRead" /\ UNCHANGED <<storeVars, engineVars>>)
       /\ (calls[c].op = "startAuction" /\ calls[c].pc = "saRead" /\ taskStatus # "OPEN")
            => /\ calls'[c].pc = "returned"
               /\ calls'[c].result = "ConflictError"
               /\ UNCHANGED <<storeVars, engineVars>>]_vars

\* startAuction has been refused on a Task that is IN_AUCTION with no
\* in-memory auction and no countdown, or on a CANCELLED Task
C37_Witness ==
  \E c \in Callers :
    /\ calls[c].pc = "returned"
    /\ calls[c].op = "startAuction"
    /\ calls[c].result = "ConflictError"
    /\ taskStatus \in {"IN_AUCTION", "CANCELLED"}
    /\ activeAuctions = 0
    /\ \A t \in Timers : timers[t].pc # "armed"

\* C38: an Offer's status only moves from PENDING to ACCEPTED, REJECTED or
\* CANCELLED and never changes after that, however cancelOffer and the
\* window close interleave.
C38_OfferStatusIsFinal ==
  [][\A i \in 1..Len(offers) :
       offers'[i].status # offers[i].status
         => /\ offers[i].status = "PENDING"
            /\ offers'[i].status \in {"ACCEPTED", "REJECTED", "CANCELLED"}]_vars

\* the Executions of the Task that are still open
OpenExecutions ==
  {i \in 1..Len(executions) :
     executions[i].taskId = "t1" /\ executions[i].status \in {"PENDING", "RUNNING"}}

\* C39: whenever no operation on the Task is in progress, a COMPLETED, FAILED
\* or CANCELLED Task has no PENDING or RUNNING Execution.
C39_TerminalTaskHasNoOpenExecution ==
  (~Busy /\ isTerminal(taskStatus)) => OpenExecutions = {}

\* the sendPayment invocations made for a Payment
TransfersOf(paymentId) == {i \in 1..Len(transfers) : transfers[i] = paymentId}

\* C40: SolanaClient.sendPayment is invoked at most once for each payment,
\* also when several settlePayment calls for the same PENDING payment overlap;
\* settlePayment on a payment that is not PENDING fails with ConflictError
\* without sending.
C40_TransferSentOnce ==
  \A paymentId \in 1..Len(payments) : Cardinality(TransfersOf(paymentId)) <= 1

====
